---- MODULE Spec2Model ----
(***************************************************************************)
(* Model of the sandbox SDK client (client/client.py): the SandboxManager  *)
(* registry, the Sandbox handle and the ExecutionSession handle, with the  *)
(* HTTP transport as a nondeterministic collaborator.                      *)
(***************************************************************************)
EXTENDS Integers, Sequences, FiniteSets, TLC

(* ---------------------------------------------------------------------- *)
(* Bounds and input sets                                                   *)
(* ---------------------------------------------------------------------- *)
MaxSandboxObjs == 3
MaxSessionObjs == 1
MaxHandleObjs == 1
(* the session objects and the length of a session listing of the session lifecycle *)
MaxLifecycleSessionObjs == 2
MaxListed == 2
(* the entries of a mapping of environment variables *)
MaxEnvLen == 2
(* the longest byte string written and downloaded again *)
MaxBytes == 3
(* the calls each thread makes on the registry *)
MaxThreadCalls == 2

(* Sandbox objects constructed in a run that follows the sandbox id header *)
MaxHeaderObjs == 2

SandboxIds == {"a", "b", "c"}
SessionIds == {"default", "s1"}
HandleIds == {"a"}
ServerSessionIds == {"", "s2"}
Paths == {"/p"}
Contents == {"x"}
Commands == {"ls"}
Interpreters == {"python3", "python", "bash", "sh", "node", "nodejs", "ruby"}
(* script_path_or_content: literal script text, or the path of a local file *)
InlineScript == [is_file |-> FALSE, readable |-> FALSE, basename |-> "", has_dot |-> FALSE]
Scripts == {InlineScript,
            [is_file |-> TRUE, readable |-> TRUE, basename |-> "job.sh", has_dot |-> TRUE],
            [is_file |-> TRUE, readable |-> TRUE, basename |-> "job", has_dot |-> FALSE],
            [is_file |-> TRUE, readable |-> FALSE, basename |-> "job.sh", has_dot |-> TRUE]}
Uuids == {"u1"}
HandleInterpreters == {"bash"}
HandleScripts == {InlineScript}
EnvOk == [key_is_str |-> TRUE, value_is_str |-> TRUE]
EnvEntries == {EnvOk,
               [key_is_str |-> FALSE, value_is_str |-> TRUE],
               [key_is_str |-> TRUE, value_is_str |-> FALSE]}
EnvInputs == {[is_dict |-> FALSE, items |-> <<>>]}
             \cup {[is_dict |-> TRUE, items |-> <<>>]}
             \cup {[is_dict |-> TRUE, items |-> <<e>>] : e \in EnvEntries}
             \cup {[is_dict |-> TRUE, items |-> <<e1, e2>>] : e1 \in {EnvOk}, e2 \in EnvEntries}
(* every mapping of up to MaxEnvLen entries, each with a key and a value that is a
   string or not *)
AnyEnvEntries == [key_is_str : BOOLEAN, value_is_str : BOOLEAN]
EnvMappings == {[is_dict |-> TRUE, items |-> m] :
                   m \in UNION {[1..n -> AnyEnvEntries] : n \in 0..MaxEnvLen}}
Statuses == {200, 404, 500}
TransportExceptions == {"Timeout", "ConnectionError", "RequestException"}

(* status_code=None of SandboxError *)
NoStatus == 0

(* ---------------------------------------------------------------------- *)
(* Values                                                                  *)
(* ---------------------------------------------------------------------- *)
(* Python None for an optional dict handed to the transport: no keys. *)
NoDict == <<>>

Response(status) == [exc |-> "None", status_code |-> status]
TransportFailure(e) == [exc |-> e, status_code |-> NoStatus]
Outcomes == {Response(s) : s \in Statuses} \cup {TransportFailure(e) : e \in TransportExceptions}
(* the outcomes drawn for each request of a batch operation *)
BatchOutcomes == {Response(200), Response(500), TransportFailure("Timeout")}
(* What resp.json() gives: a dict (a function of its keys), a list, or a body that is
   no JSON, for which json() raises. *)
JsonDict(d) == [json |-> "dict", value |-> d]
JsonList(l) == [json |-> "list", value |-> l]
NotJson == [json |-> "invalid"]
(* a response that carries a body *)
JsonResponse(status, body) == [exc |-> "None", status_code |-> status, body |-> body]

(* The session ids a listing names, and the listings of up to MaxListed of them. *)
ListedSessionIds == {"default", "s1", "s2"}
Listings == UNION {[1..n -> ListedSessionIds] : n \in 0..MaxListed}
ListBodies == {JsonDict([data |-> l]) : l \in Listings}
              \cup {JsonList(l) : l \in {m \in Listings : Len(m) <= 1}}
              \cup {JsonDict([message |-> "ok"]), NotJson}
ListOutcomes == {JsonResponse(200, b) : b \in ListBodies}
                \cup {Response(404), Response(500), TransportFailure("Timeout")}
(* The result object of a command as the remote service defines it, and the bodies
   that carry it: inside the envelope {data: {result: ...}}, as the data of the
   envelope, under 'result' without envelope, or as the body itself. *)
RunResults == [exitCode : {0, 1}, success : BOOLEAN]
RunShapes == {"envelope", "data", "result", "bare"}
RunBody(shape, result) ==
    IF shape = "envelope" THEN [data |-> [result |-> result], message |-> "success", code |-> 0]
    ELSE IF shape = "data" THEN [data |-> result, message |-> "success", code |-> 0]
    ELSE IF shape = "result" THEN [result |-> result]
    ELSE result
RunOutcomes == {JsonResponse(200, JsonDict(RunBody(sh, res))) : sh \in RunShapes, res \in RunResults}
               \cup {JsonResponse(200, NotJson), Response(404), Response(500),
                     TransportFailure("Timeout")}
(* the outcomes drawn for the exec request among the other calls on handles *)
HandleRunOutcomes == {JsonResponse(200, JsonDict(RunBody("envelope", [exitCode |-> 1, success |-> FALSE]))),
                      Response(404), TransportFailure("Timeout")}
(* the outcomes drawn for the listing request among the other calls on handles *)
HandleListOutcomes == {JsonResponse(200, JsonDict([data |-> <<"default", "s1">>])),
                       JsonResponse(200, JsonDict([data |-> <<"s1", "s2">>])),
                       TransportFailure("Timeout")}

(* The values the field 'exists' of a body takes, written as JSON text. *)
ExistsFields == {"true", "false", "null", "1", "\"false\""}
(* The bodies answering /files/exists: the field inside the envelope's data, at the
   top level, in both places, or in neither. *)
ExistsBodies == {JsonDict([data |-> [exists |-> v], message |-> "success"]) : v \in ExistsFields}
                \cup {JsonDict([exists |-> v]) : v \in ExistsFields}
                \cup {JsonDict([data |-> [exists |-> "false"], exists |-> "true"]),
                      JsonDict([data |-> [size |-> "0"], message |-> "success"]),
                      JsonDict([message |-> "ok"]), NotJson}
ExistsOutcomes == {JsonResponse(200, b) : b \in ExistsBodies}
                  \cup {Response(404), Response(500), TransportFailure("Timeout")}
(* Byte strings are sequences of byte values; a text of ASCII characters is the
   sequence of its code points, which is also the sequence of its UTF-8 bytes. *)
ByteValues == {0, 120, 255}
ByteStrings == UNION {[1..n -> ByteValues] : n \in 0..MaxBytes}

(* the character of the base64 alphabet standing for the 6-bit value i *)
B64Char(i) ==
    IF i < 26 THEN 65 + i
    ELSE IF i < 52 THEN 97 + (i - 26)
    ELSE IF i < 62 THEN 48 + (i - 52)
    ELSE IF i = 62 THEN 43
    ELSE 47
B64Index(c) == CHOOSE i \in 0..63 : B64Char(i) = c

(* base64.b64encode(b).decode('utf-8'): three bytes become four characters, a rest of
   one or two bytes is padded with '=' (code point 61). *)
RECURSIVE b64encode(_)
b64encode(b) ==
    IF Len(b) = 0 THEN <<>>
    ELSE IF Len(b) = 1
    THEN LET n == b[1] * 16
         IN  <<B64Char(n \div 64), B64Char(n % 64), 61, 61>>
    ELSE IF Len(b) = 2
    THEN LET n == (b[1] * 256 + b[2]) * 4
         IN  <<B64Char(n \div 4096), B64Char((n \div 64) % 64), B64Char(n % 64), 61>>
    ELSE LET n == b[1] * 65536 + b[2] * 256 + b[3]
         IN  <<B64Char(n \div 262144), B64Char((n \div 4096) % 64),
               B64Char((n \div 64) % 64), B64Char(n % 64)>> \o b64encode(SubSeq(b, 4, Len(b)))

(* base64.b64decode of a padded text: four characters become three bytes, fewer
   where the group ends in '='. *)
RECURSIVE b64decode(_)
b64decode(t) ==
    IF Len(t) = 0 THEN <<>>
    ELSE IF t[3] = 61
    THEN LET n == B64Index(t[1]) * 64 + B64Index(t[2])
         IN  <<n \div 16>>
    ELSE IF t[4] = 61
    THEN LET n == B64Index(t[1]) * 4096 + B64Index(t[2]) * 64 + B64Index(t[3])
         IN  <<n \div 1024, (n \div 4) % 256>>
    ELSE LET n == B64Index(t[1]) * 262144 + B64Index(t[2]) * 4096
                  + B64Index(t[3]) * 64 + B64Index(t[4])
         IN  <<n \div 65536, (n \div 256) % 256, n % 256>> \o b64decode(SubSeq(t, 5, Len(t)))

(* the contents a caller hands to write for binary data: the base64 text of the bytes *)
Base64Contents == {b64encode(b) : b \in ByteStrings}

(* The remote service answering GET /files/read with encoding=base64 for a file whose
   bytes are stored: the envelope with the base64 text of the bytes of the file. *)
RemoteRead(stored) ==
    JsonResponse(200, JsonDict([data |-> [content |-> b64encode(stored)], message |-> "success"]))

(* the outcomes drawn for the requests of calls on handles *)
HandleOutcomes == {Response(200), Response(404), TransportFailure("Timeout")}
(* the outcomes drawn for exists and download among the other calls on handles *)
HandleFileOutcomes == {JsonResponse(200, JsonDict([data |-> [exists |-> "true",
                                                             content |-> b64encode(<<120>>)],
                                                   message |-> "success"])),
                       Response(404), TransportFailure("Timeout")}

(* Python's bool() of a decoded JSON value: false, null, 0 and "" are falsy. *)
bool(v) == v \notin {"false", "null", "0", "\"\""}

(* requests.Response.ok *)
ok(resp) == resp.status_code < 400

NoError == [type |-> "None", status_code |-> NoStatus, message |-> "", target |-> ""]
ValueError(message) ==
    [type |-> "ValueError", status_code |-> NoStatus, message |-> message, target |-> ""]
SandboxError(message, target, status_code) ==
    [type |-> "SandboxError", status_code |-> status_code, message |-> message, target |-> target]

RetNone == [kind |-> "None"]
RetSandbox(h) == [kind |-> "Sandbox", ref |-> h]
RetSession(s) == [kind |-> "ExecutionSession", ref |-> s]
(* a payload decided by the remote service and handed back to the caller *)
RetRemote == [kind |-> "remote"]
(* what resp.json() raises for a body that is no JSON *)
JSONDecodeError == [type |-> "JSONDecodeError", status_code |-> NoStatus, message |-> "", target |-> ""]

VARIABLES
    _sandboxes,   \* SandboxManager._sandboxes: insertion-ordered dict, a sequence of [key, value]
    sandboxObjs,  \* the Sandbox objects ever constructed; the index is the object's identity
    sessionObjs,  \* the ExecutionSession objects ever constructed; the index is the identity
    sent,         \* the requests the transport received during the last call
    call,         \* the last call made by the caller: operation and arguments
    raised,       \* the error the last call raised (NoError when it returned)
    ret,          \* the value the last call returned
    issued,       \* per sandbox id: the handle the latest successful create_or_get_sandbox
                  \* returned, 0 once a destroy of the id has succeeded since (or before any)
    before        \* _sandboxes and issued as they were when the last call started

vars == <<_sandboxes, sandboxObjs, sessionObjs, sent, call, raised, ret, issued, before>>

Snapshot == [sandboxes |-> _sandboxes, issued |-> issued,
             defaults |-> [h \in 1..Len(sandboxObjs) |-> sandboxObjs[h]._default_session],
             sessions |-> Len(sessionObjs)]

(* ---------------------------------------------------------------------- *)
(* dict helpers for SandboxManager._sandboxes                              *)
(* ---------------------------------------------------------------------- *)
Keys(d) == {d[i].key : i \in 1..Len(d)}
(* list(d.keys()) giving the keys last to first *)
KeyList_reversed(d) == [i \in 1..Len(d) |-> d[Len(d) + 1 - i].key]
KeyList(d) == [i \in 1..Len(d) |-> d[i].key]
Lookup(d, k) == d[CHOOSE i \in 1..Len(d) : d[i].key = k].value
(* pop removing the oldest entry whatever the key is *)
Pop_oldest(d, k) == IF d = <<>> THEN d ELSE Tail(d)
Pop(d, k) == SelectSeq(d, LAMBDA e : e.key # k)

(* ---------------------------------------------------------------------- *)
(* SandboxManager                                                          *)
(* ---------------------------------------------------------------------- *)
(* _headers attaching the header whatever the sandbox id is *)
_headers_always(sandbox_id) ==
    [x_sandbox_id |-> sandbox_id]

_headers(sandbox_id) ==
    IF sandbox_id = "" THEN <<>> ELSE [x_sandbox_id |-> sandbox_id]

(* One entry of the transport's log: the request as the transport receives it, and
   what the transport answered (a response or an exception). *)
Request(method, path, params, json_body, sandbox_id, outcome) ==
    [method |-> method, path |-> path, params |-> params, json |-> json_body,
     headers |-> _headers(sandbox_id), reply |-> outcome]

(* SandboxManager._request: one transport call; a transport exception becomes
   a SandboxError without status code, a response is returned whatever its status. *)
TransportMessage(e) ==
    IF e = "Timeout" THEN "timed out"
    ELSE IF e = "ConnectionError" THEN "Failed to connect"
    ELSE "failed"

(* _request sending the request a second time after a transport failure *)
Manager_request_retry(method, path, params, json_body, sandbox_id, outcome) ==
    [sent |-> IF outcome.exc = "None"
              THEN <<Request(method, path, params, json_body, sandbox_id, outcome)>>
              ELSE <<Request(method, path, params, json_body, sandbox_id, outcome),
                     Request(method, path, params, json_body, sandbox_id, outcome)>>,
     resp |-> outcome,
     raised |-> IF outcome.exc = "None" THEN NoError
                ELSE SandboxError(TransportMessage(outcome.exc), path, NoStatus)]

Manager_request(method, path, params, json_body, sandbox_id, outcome) ==
    [sent |-> <<Request(method, path, params, json_body, sandbox_id, outcome)>>,
     resp |-> outcome,
     raised |-> IF outcome.exc = "None" THEN NoError
                ELSE SandboxError(TransportMessage(outcome.exc), path, NoStatus)]

(* _append_id constructing a Sandbox on every call instead of reusing the cached one *)
_append_id_always_new(cache, objs, sandbox_id) ==
    IF sandbox_id \notin Keys(cache)
    THEN [cache |-> Append(cache, [key |-> sandbox_id, value |-> Len(objs) + 1]),
          objs |-> Append(objs, [sandbox_id |-> sandbox_id, _default_session |-> 0]),
          handle |-> Len(objs) + 1]
    ELSE [cache |-> [i \in 1..Len(cache) |->
                        IF cache[i].key = sandbox_id
                        THEN [key |-> sandbox_id, value |-> Len(objs) + 1] ELSE cache[i]],
          objs |-> Append(objs, [sandbox_id |-> sandbox_id, _default_session |-> 0]),
          handle |-> Len(objs) + 1]

(* _append_id caching again the Sandbox it constructed for the id earlier, if there is one *)
_append_id_reuses_old(cache, objs, sandbox_id) ==
    LET old == {h \in 1..Len(objs) : objs[h].sandbox_id = sandbox_id} IN
    IF sandbox_id \in Keys(cache)
    THEN [cache |-> cache, objs |-> objs, handle |-> Lookup(cache, sandbox_id)]
    ELSE IF old # {}
    THEN [cache |-> Append(cache, [key |-> sandbox_id, value |-> CHOOSE h \in old : TRUE]),
          objs |-> objs, handle |-> CHOOSE h \in old : TRUE]
    ELSE [cache |-> Append(cache, [key |-> sandbox_id, value |-> Len(objs) + 1]),
          objs |-> Append(objs, [sandbox_id |-> sandbox_id, _default_session |-> 0]),
          handle |-> Len(objs) + 1]

(* SandboxManager._append_id: the cache and the heap after the call, and the handle returned. *)
_append_id(cache, objs, sandbox_id) ==
    IF sandbox_id \notin Keys(cache)
    THEN [cache |-> Append(cache, [key |-> sandbox_id, value |-> Len(objs) + 1]),
          objs |-> Append(objs, [sandbox_id |-> sandbox_id, _default_session |-> 0]),
          handle |-> Len(objs) + 1]
    ELSE [cache |-> cache, objs |-> objs, handle |-> Lookup(cache, sandbox_id)]

(* _remove_id emptying the cache *)
_remove_id_all(cache, sandbox_id) == <<>>

(* SandboxManager._remove_id *)
_remove_id(cache, sandbox_id) == Pop(cache, sandbox_id)

(* create_or_get_sandbox caching the handle before it looks at the response *)
CreateOrGetResult_cache_first(cache, objs, sandbox_id, outcome) ==
    LET r == Manager_request("POST", "/lifecycle", NoDict, [options |-> "None"], sandbox_id, outcome)
        a == _append_id(cache, objs, sandbox_id)
    IN  IF r.raised # NoError
        THEN [cache |-> cache, objs |-> objs, sent |-> r.sent, raised |-> r.raised, ret |-> RetNone]
        ELSE IF ~ok(r.resp)
        THEN [cache |-> a.cache, objs |-> a.objs, sent |-> r.sent,
              raised |-> SandboxError("Failed to create sandbox", sandbox_id, r.resp.status_code),
              ret |-> RetNone]
        ELSE [cache |-> a.cache, objs |-> a.objs, sent |-> r.sent, raised |-> NoError,
              ret |-> RetSandbox(a.handle)]

(* SandboxManager.create_or_get_sandbox as a function of the state and the transport outcome. *)
CreateOrGetResult(cache, objs, sandbox_id, outcome) ==
    LET r == Manager_request("POST", "/lifecycle", NoDict, [options |-> "None"], sandbox_id, outcome)
        a == _append_id(cache, objs, sandbox_id)
    IN  IF r.raised # NoError
        THEN [cache |-> cache, objs |-> objs, sent |-> r.sent, raised |-> r.raised, ret |-> RetNone]
        ELSE IF ~ok(r.resp)
        THEN [cache |-> cache, objs |-> objs, sent |-> r.sent,
              raised |-> SandboxError("Failed to create sandbox", sandbox_id, r.resp.status_code),
              ret |-> RetNone]
        ELSE [cache |-> a.cache, objs |-> a.objs, sent |-> r.sent, raised |-> NoError,
              ret |-> RetSandbox(a.handle)]

(* destroy_sandbox evicting the handle before it looks at the response *)
DestroyResult_evict_first(cache, sandbox_id, outcome) ==
    LET r == Manager_request("DELETE", "/lifecycle", NoDict, NoDict, sandbox_id, outcome)
    IN  IF r.raised # NoError
        THEN [cache |-> cache, sent |-> r.sent, raised |-> r.raised]
        ELSE IF ~ok(r.resp)
        THEN [cache |-> _remove_id(cache, sandbox_id), sent |-> r.sent,
              raised |-> SandboxError("Failed to destroy sandbox", sandbox_id, r.resp.status_code)]
        ELSE [cache |-> _remove_id(cache, sandbox_id), sent |-> r.sent, raised |-> NoError]

(* destroy_sandbox returning at once for an id that is not cached *)
DestroyResult_skip_uncached(cache, sandbox_id, outcome) ==
    LET r == Manager_request("DELETE", "/lifecycle", NoDict, NoDict, sandbox_id, outcome)
    IN  IF sandbox_id \notin Keys(cache)
        THEN [cache |-> cache, sent |-> <<>>, raised |-> NoError]
        ELSE IF r.raised # NoError
        THEN [cache |-> cache, sent |-> r.sent, raised |-> r.raised]
        ELSE IF ~ok(r.resp)
        THEN [cache |-> cache, sent |-> r.sent,
              raised |-> SandboxError("Failed to destroy sandbox", sandbox_id, r.resp.status_code)]
        ELSE [cache |-> _remove_id(cache, sandbox_id), sent |-> r.sent, raised |-> NoError]

(* SandboxManager.destroy_sandbox as a function of the cache and the transport outcome. *)
DestroyResult(cache, sandbox_id, outcome) ==
    LET r == Manager_request("DELETE", "/lifecycle", NoDict, NoDict, sandbox_id, outcome)
    IN  IF r.raised # NoError
        THEN [cache |-> cache, sent |-> r.sent, raised |-> r.raised]
        ELSE IF ~ok(r.resp)
        THEN [cache |-> cache, sent |-> r.sent,
              raised |-> SandboxError("Failed to destroy sandbox", sandbox_id, r.resp.status_code)]
        ELSE [cache |-> _remove_id(cache, sandbox_id), sent |-> r.sent, raised |-> NoError]

(* the loop of destroy_all_sandboxes going on after a failure whatever continue_on_error is *)
RECURSIVE DestroyAllLoop_never_abort(_, _, _, _, _)
DestroyAllLoop_never_abort(acc, sandbox_ids, outcomes, continue_on_error, i) ==
    IF i > Len(sandbox_ids)
    THEN [acc EXCEPT !.raised = NoError]
    ELSE LET r == DestroyResult(acc.cache, sandbox_ids[i], outcomes[i]) IN
         IF r.raised = NoError
         THEN DestroyAllLoop_never_abort([acc EXCEPT !.cache = r.cache,
                                         !.sent = acc.sent \o r.sent,
                                         !.destroyed = Append(acc.destroyed, sandbox_ids[i])],
                             sandbox_ids, outcomes, continue_on_error, i + 1)
         ELSE DestroyAllLoop_never_abort([acc EXCEPT !.cache = r.cache,
                                      !.sent = acc.sent \o r.sent,
                                      !.failed = Append(acc.failed,
                                          <<sandbox_ids[i], <<r.raised.message, r.raised.target>> >>)],
                             sandbox_ids, outcomes, continue_on_error, i + 1)

(* the loop of destroy_all_sandboxes destroying the first id on every iteration *)
RECURSIVE DestroyAllLoop_first_id(_, _, _, _, _)
DestroyAllLoop_first_id(acc, sandbox_ids, outcomes, continue_on_error, i) ==
    IF i > Len(sandbox_ids)
    THEN [acc EXCEPT !.raised = NoError]
    ELSE LET r == DestroyResult(acc.cache, sandbox_ids[1], outcomes[i]) IN
         IF r.raised = NoError
         THEN DestroyAllLoop_first_id([acc EXCEPT !.cache = r.cache,
                                         !.sent = acc.sent \o r.sent,
                                         !.destroyed = Append(acc.destroyed, sandbox_ids[1])],
                             sandbox_ids, outcomes, continue_on_error, i + 1)
         ELSE LET acc2 == [acc EXCEPT !.cache = r.cache,
                                      !.sent = acc.sent \o r.sent,
                                      !.failed = Append(acc.failed,
                                          <<sandbox_ids[1], <<r.raised.message, r.raised.target>> >>)]
              IN  IF ~continue_on_error
                  THEN [acc2 EXCEPT !.raised = r.raised]
                  ELSE DestroyAllLoop_first_id(acc2, sandbox_ids, outcomes, continue_on_error, i + 1)

(* One iteration of the loop of SandboxManager.destroy_all_sandboxes and the rest of
   the loop after it; acc carries cache, destroyed, failed and the requests sent. *)
RECURSIVE DestroyAllLoop(_, _, _, _, _)
DestroyAllLoop(acc, sandbox_ids, outcomes, continue_on_error, i) ==
    IF i > Len(sandbox_ids)
    THEN [acc EXCEPT !.raised = NoError]
    ELSE LET r == DestroyResult(acc.cache, sandbox_ids[i], outcomes[i]) IN
         IF r.raised = NoError
         THEN DestroyAllLoop([acc EXCEPT !.cache = r.cache,
                                         !.sent = acc.sent \o r.sent,
                                         !.destroyed = Append(acc.destroyed, sandbox_ids[i])],
                             sandbox_ids, outcomes, continue_on_error, i + 1)
         ELSE LET acc2 == [acc EXCEPT !.cache = r.cache,
                                      !.sent = acc.sent \o r.sent,
                                      !.failed = Append(acc.failed,
                                          <<sandbox_ids[i], <<r.raised.message, r.raised.target>> >>)]
              IN  IF ~continue_on_error
                  THEN [acc2 EXCEPT !.raised = r.raised]
                  ELSE DestroyAllLoop(acc2, sandbox_ids, outcomes, continue_on_error, i + 1)

(* destroy_all_sandboxes reporting the number of destroyed sandboxes as the total *)
DestroyAllResult_total_destroyed(cache, outcomes, continue_on_error) ==
    LET sandbox_ids == KeyList(cache)
        r == DestroyAllLoop([cache |-> cache, destroyed |-> <<>>, failed |-> <<>>,
                             sent |-> <<>>, raised |-> NoError],
                            sandbox_ids, outcomes, continue_on_error, 1)
    IN  [cache |-> r.cache, sent |-> r.sent, raised |-> r.raised, destroyed |-> r.destroyed,
         ret |-> IF r.raised # NoError THEN RetNone
                 ELSE [kind |-> "dict", destroyed |-> r.destroyed, failed |-> r.failed,
                       total |-> Len(r.destroyed), success_count |-> Len(r.destroyed),
                       failure_count |-> Len(r.failed)]]

(* SandboxManager.destroy_all_sandboxes as a function of the cache and the transport outcomes. *)
DestroyAllResult(cache, outcomes, continue_on_error) ==
    LET sandbox_ids == KeyList(cache)
        r == DestroyAllLoop([cache |-> cache, destroyed |-> <<>>, failed |-> <<>>,
                             sent |-> <<>>, raised |-> NoError],
                            sandbox_ids, outcomes, continue_on_error, 1)
    IN  [cache |-> r.cache, sent |-> r.sent, raised |-> r.raised, destroyed |-> r.destroyed,
         ret |-> IF r.raised # NoError THEN RetNone
                 ELSE [kind |-> "dict", destroyed |-> r.destroyed, failed |-> r.failed,
                       total |-> Len(sandbox_ids), success_count |-> Len(r.destroyed),
                       failure_count |-> Len(r.failed)]]

(* ---------------------------------------------------------------------- *)
(* Sandbox                                                                 *)
(* ---------------------------------------------------------------------- *)
(* Sandbox._request: delegates to the manager with the handle's sandbox id. *)
Sandbox_request(sandbox_id, method, path, params, json_body, outcome) ==
    Manager_request(method, path, params, json_body, sandbox_id, outcome)

(* _default naming the session it constructs after the sandbox *)
_default_named_after_sandbox(sobjs, eobjs, h) ==
    IF sobjs[h]._default_session = 0
    THEN [sandboxObjs |-> [sobjs EXCEPT ![h]._default_session = Len(eobjs) + 1],
          sessionObjs |-> Append(eobjs, [session_id |-> sobjs[h].sandbox_id, sandbox |-> h]),
          session |-> Len(eobjs) + 1]
    ELSE [sandboxObjs |-> sobjs, sessionObjs |-> eobjs, session |-> sobjs[h]._default_session]

(* _default constructing a new session on every use *)
_default_always_new(sobjs, eobjs, h) ==
    [sandboxObjs |-> [sobjs EXCEPT ![h]._default_session = Len(eobjs) + 1],
     sessionObjs |-> Append(eobjs, [session_id |-> "default", sandbox |-> h]),
     session |-> Len(eobjs) + 1]

(* Sandbox._default: the default session of handle h, constructed on first use. *)
_default(sobjs, eobjs, h) ==
    IF sobjs[h]._default_session = 0
    THEN [sandboxObjs |-> [sobjs EXCEPT ![h]._default_session = Len(eobjs) + 1],
          sessionObjs |-> Append(eobjs, [session_id |-> "default", sandbox |-> h]),
          session |-> Len(eobjs) + 1]
    ELSE [sandboxObjs |-> sobjs, sessionObjs |-> eobjs, session |-> sobjs[h]._default_session]

(* the status check raising the SandboxError without the status of the response *)
Checked_without_status(r, message, target) ==
    IF r.raised # NoError THEN r.raised
    ELSE IF ~ok(r.resp) THEN SandboxError(message, target, NoStatus)
    ELSE NoError

(* The pattern every handle method follows after its request: a transport error
   propagates, a non-success response raises SandboxError with the response's status. *)
Checked(r, message, target) ==
    IF r.raised # NoError THEN r.raised
    ELSE IF ~ok(r.resp) THEN SandboxError(message, target, r.resp.status_code)
    ELSE NoError

(* delete_session without the check for the default session *)
DeleteSessionResult_no_guard(sandbox_id, session_id, outcome) ==
    LET r == Sandbox_request(sandbox_id, "DELETE", "/session", [session_id |-> session_id],
                             NoDict, outcome)
    IN  [sent |-> r.sent, raised |-> Checked(r, "Failed to delete session", session_id)]

(* Sandbox.delete_session *)
DeleteSessionResult(sandbox_id, session_id, outcome) ==
    IF session_id = "default"
    THEN [sent |-> <<>>, raised |-> SandboxError("Cannot delete default session", session_id, NoStatus)]
    ELSE LET r == Sandbox_request(sandbox_id, "DELETE", "/session", [session_id |-> session_id],
                                  NoDict, outcome)
         IN  [sent |-> r.sent, raised |-> Checked(r, "Failed to delete session", session_id)]

(* The session ids destroy_all_sessions reads from the answer r of its listing request:
   none when the request failed, the response is no success or its body is no JSON
   (every exception of the listing is swallowed), the list under 'data' of a dict, or
   the body itself when it is a list. *)
ListedSessions(r) ==
    IF r.raised # NoError THEN <<>>
    ELSE IF ~ok(r.resp) THEN <<>>
    ELSE IF r.resp.body.json = "invalid" THEN <<>>
    ELSE IF r.resp.body.json = "dict" /\ "data" \in DOMAIN r.resp.body.value
    THEN r.resp.body.value.data
    ELSE IF r.resp.body.json = "list" THEN r.resp.body.value
    ELSE <<>>

(* destroy_all_sessions keeping the default session among the ids it deletes *)
NonDefault_keep_all(session_ids) ==
    session_ids

(* [sid for sid in session_ids if sid != "default"] *)
NonDefault(session_ids) ==
    SelectSeq(session_ids, LAMBDA sid : sid # "default")

(* the loop of destroy_all_sessions going on after a failure whatever continue_on_error is *)
RECURSIVE DestroyAllSessionsLoop_never_abort(_, _, _, _, _, _)
DestroyAllSessionsLoop_never_abort(acc, sandbox_id, session_ids, outcomes, continue_on_error, i) ==
    IF i > Len(session_ids)
    THEN [acc EXCEPT !.raised = NoError]
    ELSE LET r == DeleteSessionResult(sandbox_id, session_ids[i], outcomes[i]) IN
         IF r.raised = NoError
         THEN DestroyAllSessionsLoop_never_abort(
                  [acc EXCEPT !.sent = acc.sent \o r.sent,
                              !.destroyed = Append(acc.destroyed, session_ids[i])],
                  sandbox_id, session_ids, outcomes, continue_on_error, i + 1)
         ELSE DestroyAllSessionsLoop_never_abort(
                  [acc EXCEPT !.sent = acc.sent \o r.sent,
                              !.failed = Append(acc.failed,
                                  <<session_ids[i], <<r.raised.message, r.raised.target>> >>)],
                  sandbox_id, session_ids, outcomes, continue_on_error, i + 1)

(* One iteration of the loop of Sandbox.destroy_all_sessions and the rest of the loop
   after it; acc carries destroyed, failed and the requests sent. *)
RECURSIVE DestroyAllSessionsLoop(_, _, _, _, _, _)
DestroyAllSessionsLoop(acc, sandbox_id, session_ids, outcomes, continue_on_error, i) ==
    IF i > Len(session_ids)
    THEN [acc EXCEPT !.raised = NoError]
    ELSE LET r == DeleteSessionResult(sandbox_id, session_ids[i], outcomes[i]) IN
         IF r.raised = NoError
         THEN DestroyAllSessionsLoop([acc EXCEPT !.sent = acc.sent \o r.sent,
                                                 !.destroyed = Append(acc.destroyed, session_ids[i])],
                                     sandbox_id, session_ids, outcomes, continue_on_error, i + 1)
         ELSE LET acc2 == [acc EXCEPT !.sent = acc.sent \o r.sent,
                                      !.failed = Append(acc.failed,
                                          <<session_ids[i], <<r.raised.message, r.raised.target>> >>)]
              IN  IF ~continue_on_error
                  THEN [acc2 EXCEPT !.raised = r.raised]
                  ELSE DestroyAllSessionsLoop(acc2, sandbox_id, session_ids, outcomes,
                                              continue_on_error, i + 1)

(* destroy_all_sessions letting a failure of its listing request escape *)
DestroyAllSessionsResult_listing_raises(sandbox_id, list_outcome, outcomes, continue_on_error) ==
    LET l == Sandbox_request(sandbox_id, "GET", "/api/session/list", NoDict, NoDict, list_outcome)
        e == Checked(l, "Failed to list sessions", "")
        session_ids == NonDefault(ListedSessions(l))
        r == DestroyAllSessionsLoop([destroyed |-> <<>>, failed |-> <<>>, sent |-> l.sent,
                                     raised |-> NoError],
                                    sandbox_id, session_ids, outcomes, continue_on_error, 1)
    IN  IF e # NoError THEN [sent |-> l.sent, raised |-> e, ret |-> RetNone]
        ELSE [sent |-> r.sent, raised |-> r.raised,
              ret |-> IF r.raised # NoError THEN RetNone
                      ELSE [kind |-> "dict", destroyed |-> r.destroyed, failed |-> r.failed,
                            total |-> Len(session_ids), success_count |-> Len(r.destroyed),
                            failure_count |-> Len(r.failed)]]

(* Sandbox.destroy_all_sessions as a function of the transport outcomes: of the listing
   request and of the delete request of each session. *)
DestroyAllSessionsResult(sandbox_id, list_outcome, outcomes, continue_on_error) ==
    LET l == Sandbox_request(sandbox_id, "GET", "/api/session/list", NoDict, NoDict, list_outcome)
        session_ids == NonDefault(ListedSessions(l))
        r == DestroyAllSessionsLoop([destroyed |-> <<>>, failed |-> <<>>, sent |-> l.sent,
                                     raised |-> NoError],
                                    sandbox_id, session_ids, outcomes, continue_on_error, 1)
    IN  [sent |-> r.sent, raised |-> r.raised,
         ret |-> IF r.raised # NoError THEN RetNone
                 ELSE [kind |-> "dict", destroyed |-> r.destroyed, failed |-> r.failed,
                       total |-> Len(session_ids), success_count |-> Len(r.destroyed),
                       failure_count |-> Len(r.failed)]]

(* ---------------------------------------------------------------------- *)
(* ExecutionSession                                                        *)
(* ---------------------------------------------------------------------- *)
(* _request putting the session id into the query parameters whatever the verb *)
Session_request_params_only(session_id, sandbox_id, method, path, params, json_body, outcome) ==
    Sandbox_request(sandbox_id, method, path, ("sessionId" :> session_id) @@ params,
                    json_body, outcome)

(* ExecutionSession._request: injects the session id, then delegates to the sandbox. *)
Session_request(session_id, sandbox_id, method, path, params, json_body, outcome) ==
    LET final_json_body == IF method \in {"POST", "PUT"}
                           THEN ("sessionId" :> session_id) @@ json_body
                           ELSE json_body
        final_params == IF method \in {"POST", "PUT"} THEN params
                        ELSE IF method \in {"GET", "DELETE"}
                        THEN ("sessionId" :> session_id) @@ params
                        ELSE params
    IN  Sandbox_request(sandbox_id, method, path, final_params, final_json_body, outcome)

(* A method that issues one request and checks its status; ret is what it returns
   on success. *)
OneRequest(session_id, sandbox_id, method, path, params, json_body, outcome, message, target, value) ==
    LET r == Session_request(session_id, sandbox_id, method, path, params, json_body, outcome)
        e == Checked(r, message, target)
    IN  [sent |-> r.sent, raised |-> e, ret |-> IF e = NoError THEN value ELSE RetNone]

(* ExecutionSession.write *)
write_result(session_id, sandbox_id, path, content, outcome) ==
    OneRequest(session_id, sandbox_id, "POST", "/files/write", NoDict,
               [path |-> path, content |-> content], outcome, "Failed to write file", path, RetNone)

(* ExecutionSession.read *)
read_result(session_id, sandbox_id, path, outcome) ==
    OneRequest(session_id, sandbox_id, "GET", "/files/read", [path |-> path], NoDict,
               outcome, "Failed to read file", path, RetRemote)

(* what base64.b64decode raises for a text whose length is no multiple of four *)
BinasciiError == [type |-> "binascii.Error", status_code |-> NoStatus, message |-> "", target |-> ""]

(* ExecutionSession.download; a missing field 'content' is the empty text. *)
download_result(session_id, sandbox_id, path, outcome) ==
    LET r == Session_request(session_id, sandbox_id, "GET", "/files/read",
                             [path |-> path, encoding |-> "base64"], NoDict, outcome)
        e == Checked(r, "Failed to download file", path)
        result == r.resp.body.value
        payload == IF "data" \in DOMAIN result THEN result.data ELSE result
        content == IF "content" \in DOMAIN payload THEN payload.content ELSE <<>>
    IN  IF e # NoError THEN [sent |-> r.sent, raised |-> e, ret |-> RetNone]
        ELSE IF r.resp.body.json = "invalid"
        THEN [sent |-> r.sent, raised |-> JSONDecodeError, ret |-> RetNone]
        ELSE IF Len(content) % 4 # 0
        THEN [sent |-> r.sent, raised |-> BinasciiError, ret |-> RetNone]
        ELSE [sent |-> r.sent, raised |-> NoError,
              ret |-> [kind |-> "bytes", value |-> b64decode(content)]]

(* ExecutionSession.delete *)
delete_result(session_id, sandbox_id, path, outcome) ==
    OneRequest(session_id, sandbox_id, "DELETE", "/files/delete", [path |-> path], NoDict,
               outcome, "Failed to delete file", path, RetNone)

(* ExecutionSession.mount_bucket *)
mount_bucket_result(session_id, sandbox_id, bucket, mount_path, options, outcome) ==
    OneRequest(session_id, sandbox_id, "POST", "/mount-bucket", NoDict,
               [bucket |-> bucket, mountPath |-> mount_path, options |-> options],
               outcome, "Failed to mount bucket", mount_path, RetRemote)

(* ExecutionSession.mkdir *)
mkdir_result(session_id, sandbox_id, path, recursive, outcome) ==
    OneRequest(session_id, sandbox_id, "POST", "/files/mkdir", NoDict,
               [path |-> path, recursive |-> recursive],
               outcome, "Failed to create directory", path, RetRemote)

(* exists looking for the field at the top level of the body only *)
exists_result_top_level(session_id, sandbox_id, path, outcome) ==
    LET r == Session_request(session_id, sandbox_id, "GET", "/files/exists", [path |-> path],
                             NoDict, outcome)
        e == Checked(r, "Failed to check existence", path)
        result == r.resp.body.value
    IN  IF e # NoError THEN [sent |-> r.sent, raised |-> e, ret |-> RetNone]
        ELSE IF r.resp.body.json = "invalid"
        THEN [sent |-> r.sent, raised |-> JSONDecodeError, ret |-> RetNone]
        ELSE [sent |-> r.sent, raised |-> NoError,
              ret |-> [kind |-> "bool",
                       value |-> IF "exists" \in DOMAIN result THEN bool(result.exists)
                                 ELSE FALSE]]

(* ExecutionSession.exists *)
exists_result(session_id, sandbox_id, path, outcome) ==
    LET r == Session_request(session_id, sandbox_id, "GET", "/files/exists", [path |-> path],
                             NoDict, outcome)
        e == Checked(r, "Failed to check existence", path)
        result == r.resp.body.value
    IN  IF e # NoError THEN [sent |-> r.sent, raised |-> e, ret |-> RetNone]
        ELSE IF r.resp.body.json = "invalid"
        THEN [sent |-> r.sent, raised |-> JSONDecodeError, ret |-> RetNone]
        ELSE IF "data" \in DOMAIN result
        THEN [sent |-> r.sent, raised |-> NoError,
              ret |-> [kind |-> "bool",
                       value |-> IF "exists" \in DOMAIN result.data
                                 THEN bool(result.data.exists) ELSE FALSE]]
        ELSE [sent |-> r.sent, raised |-> NoError,
              ret |-> [kind |-> "bool",
                       value |-> IF "exists" \in DOMAIN result THEN bool(result.exists)
                                 ELSE FALSE]]

(* ExecutionSession.rename *)
rename_result(session_id, sandbox_id, old_path, new_path, outcome) ==
    OneRequest(session_id, sandbox_id, "POST", "/files/rename", NoDict,
               [oldPath |-> old_path, newPath |-> new_path],
               outcome, "Failed to rename", old_path, RetRemote)

(* ExecutionSession.move *)
move_result(session_id, sandbox_id, source_path, destination_path, outcome) ==
    OneRequest(session_id, sandbox_id, "POST", "/files/move", NoDict,
               [sourcePath |-> source_path, destPath |-> destination_path],
               outcome, "Failed to move", source_path, RetRemote)

(* ExecutionSession.unmount_bucket *)
unmount_bucket_result(session_id, sandbox_id, mount_path, outcome) ==
    OneRequest(session_id, sandbox_id, "DELETE", "/unmount-bucket", [mountPath |-> mount_path],
               NoDict, outcome, "Failed to unmount bucket", mount_path, RetRemote)

(* What run returns for the decoded body result, a dict. *)
RunValue(result) ==
    IF "data" \in DOMAIN result
    THEN IF "result" \in DOMAIN result.data THEN result.data.result ELSE result.data
    ELSE IF "result" \in DOMAIN result THEN result.result ELSE result

(* run raising when the command ended with an exit code other than 0 *)
run_result_exit_code_raises(session_id, sandbox_id, command, outcome) ==
    LET r == Session_request(session_id, sandbox_id, "POST", "/session/exec", NoDict,
                             [command |-> command], outcome)
        e == Checked(r, "Failed to run command", command)
    IN  IF e # NoError THEN [sent |-> r.sent, raised |-> e, ret |-> RetNone]
        ELSE IF r.resp.body.json = "invalid"
        THEN [sent |-> r.sent, raised |-> JSONDecodeError, ret |-> RetNone]
        ELSE IF RunValue(r.resp.body.value).exitCode # 0
        THEN [sent |-> r.sent, raised |-> SandboxError("Failed to run command", command, NoStatus),
              ret |-> RetNone]
        ELSE [sent |-> r.sent, raised |-> NoError,
              ret |-> [kind |-> "remote", value |-> RunValue(r.resp.body.value)]]

(* ExecutionSession.run *)
run_result(session_id, sandbox_id, command, outcome) ==
    LET r == Session_request(session_id, sandbox_id, "POST", "/session/exec", NoDict,
                             [command |-> command], outcome)
        e == Checked(r, "Failed to run command", command)
    IN  IF e # NoError THEN [sent |-> r.sent, raised |-> e, ret |-> RetNone]
        ELSE IF r.resp.body.json = "invalid"
        THEN [sent |-> r.sent, raised |-> JSONDecodeError, ret |-> RetNone]
        ELSE [sent |-> r.sent, raised |-> NoError,
              ret |-> [kind |-> "remote", value |-> RunValue(r.resp.body.value)]]

(* run_script giving every path it makes up the extension .txt *)
ext_map_always_txt(interpreter) ==
    ".txt"

(* The extension run_script gives a remote path it makes up itself. *)
ext_map(interpreter) ==
    IF interpreter \in {"python3", "python"} THEN ".py"
    ELSE IF interpreter \in {"bash", "sh"} THEN ".sh"
    ELSE IF interpreter \in {"node", "nodejs"} THEN ".js"
    ELSE ".txt"

(* The remote path run_script writes to; sandbox_path = "" is the argument left out.
   A path put together from pieces is the sequence of its pieces. *)
ResolvedPath(script, interpreter, sandbox_path, uuid) ==
    IF sandbox_path # "" THEN <<sandbox_path>>
    ELSE IF script.is_file
    THEN IF script.basename = "" \/ ~script.has_dot
         THEN <<"/workspace/", "script", ext_map(interpreter)>>
         ELSE <<"/workspace/", script.basename>>
    ELSE <<"/workspace/", "script-", uuid, ext_map(interpreter)>>

(* The command run_script issues for the script at path. *)
ScriptCommand(interpreter, path) ==
    IF interpreter \in {"python3", "python"} THEN <<"python3", " ", path>>
    ELSE IF interpreter \in {"bash", "sh"} THEN <<"bash", " ", path>>
    ELSE IF interpreter \in {"node", "nodejs"} THEN <<"node", " ", path>>
    ELSE <<interpreter, " ", path>>

(* run_script sending the run request ahead of the write request *)
run_script_result_run_first(session_id, sandbox_id, script, interpreter, sandbox_path, uuid, write_outcome, run_outcome) ==
    IF script.is_file /\ ~script.readable
    THEN [sent |-> <<>>, raised |-> SandboxError("Failed to read script file", script.basename, NoStatus),
          ret |-> RetNone]
    ELSE LET path == ResolvedPath(script, interpreter, sandbox_path, uuid)
             content == IF script.is_file THEN <<"contents of", script.basename>> ELSE "inline"
             w == write_result(session_id, sandbox_id, path, content, write_outcome)
             r == run_result(session_id, sandbox_id, ScriptCommand(interpreter, path), run_outcome)
         IN  IF r.raised # NoError
             THEN [sent |-> r.sent, raised |-> r.raised, ret |-> RetNone]
             ELSE IF w.raised # NoError
             THEN [sent |-> r.sent \o w.sent, raised |-> w.raised, ret |-> RetNone]
             ELSE [sent |-> r.sent \o w.sent, raised |-> NoError,
                   ret |-> [kind |-> "remote",
                            value |-> [scriptPath |-> path, interpreter |-> interpreter,
                                       localPath |-> IF script.is_file THEN script.basename
                                                     ELSE "None",
                                       sessionId |-> session_id] @@ r.ret.value]]

(* ExecutionSession.run_script: write the script, then run it. *)
run_script_result(session_id, sandbox_id, script, interpreter, sandbox_path, uuid, write_outcome, run_outcome) ==
    IF script.is_file /\ ~script.readable
    THEN [sent |-> <<>>, raised |-> SandboxError("Failed to read script file", script.basename, NoStatus),
          ret |-> RetNone]
    ELSE LET path == ResolvedPath(script, interpreter, sandbox_path, uuid)
             content == IF script.is_file THEN <<"contents of", script.basename>> ELSE "inline"
             w == write_result(session_id, sandbox_id, path, content, write_outcome)
             r == run_result(session_id, sandbox_id, ScriptCommand(interpreter, path), run_outcome)
         IN  IF w.raised # NoError
             THEN [sent |-> w.sent, raised |-> w.raised, ret |-> RetNone]
             ELSE IF r.raised # NoError
             THEN [sent |-> w.sent \o r.sent, raised |-> r.raised, ret |-> RetNone]
             ELSE [sent |-> w.sent \o r.sent, raised |-> NoError,
                   ret |-> [kind |-> "remote",
                            value |-> [scriptPath |-> path, interpreter |-> interpreter,
                                       localPath |-> IF script.is_file THEN script.basename
                                                     ELSE "None",
                                       sessionId |-> session_id] @@ r.ret.value]]

(* set_env_vars validating the first entry of the mapping only *)
set_env_vars_result_first_entry(session_id, sandbox_id, env_vars, outcome) ==
    IF ~env_vars.is_dict
    THEN [sent |-> <<>>, raised |-> ValueError("env_vars must be a dictionary"), ret |-> RetNone]
    ELSE IF \E i \in 1..Len(env_vars.items) :
                i = 1 /\ (~env_vars.items[i].key_is_str \/ ~env_vars.items[i].value_is_str)
    THEN [sent |-> <<>>, raised |-> ValueError("env_vars must contain only string key-value pairs"),
          ret |-> RetNone]
    ELSE OneRequest(session_id, sandbox_id, "POST", "/session/env", NoDict,
                    [envVars |-> env_vars.items], outcome,
                    "Failed to set environment variables", session_id, RetNone)

(* ExecutionSession.set_env_vars *)
set_env_vars_result(session_id, sandbox_id, env_vars, outcome) ==
    IF ~env_vars.is_dict
    THEN [sent |-> <<>>, raised |-> ValueError("env_vars must be a dictionary"), ret |-> RetNone]
    ELSE IF \E i \in 1..Len(env_vars.items) :
                ~env_vars.items[i].key_is_str \/ ~env_vars.items[i].value_is_str
    THEN [sent |-> <<>>, raised |-> ValueError("env_vars must contain only string key-value pairs"),
          ret |-> RetNone]
    ELSE OneRequest(session_id, sandbox_id, "POST", "/session/env", NoDict,
                    [envVars |-> env_vars.items], outcome,
                    "Failed to set environment variables", session_id, RetNone)

(* Sandbox._create_session, called by Sandbox.create_or_get_session: server_session_id
   is the sessionId of the response payload, "" when the payload has none. *)
_create_session(eobjs, h, sandbox_id, session_id, server_session_id, outcome) ==
    LET json_body == IF session_id # "" THEN [id |-> session_id] ELSE <<>>
        r == Sandbox_request(sandbox_id, "POST", "/session", NoDict, json_body, outcome)
        e == Checked(r, "Failed to create session", session_id)
        created_session_id == IF server_session_id # "" THEN server_session_id ELSE session_id
    IN  IF e # NoError
        THEN [sessionObjs |-> eobjs, sent |-> r.sent, raised |-> e, ret |-> RetNone]
        ELSE IF created_session_id = ""
        THEN [sessionObjs |-> eobjs, sent |-> r.sent,
              raised |-> SandboxError("Server did not return sessionId", "", NoStatus),
              ret |-> RetNone]
        ELSE [sessionObjs |-> Append(eobjs, [session_id |-> created_session_id, sandbox |-> h]),
              sent |-> r.sent, raised |-> NoError, ret |-> RetSession(Len(eobjs) + 1)]

SeqToSet(s) == {s[i] : i \in 1..Len(s)}

Init ==
    /\ issued = [id \in SandboxIds |-> 0]
    /\ before = [sandboxes |-> <<>>, issued |-> [id \in SandboxIds |-> 0],
                 defaults |-> <<>>, sessions |-> 0]
    /\ _sandboxes = <<>>
    /\ sandboxObjs = <<>>
    /\ sessionObjs = <<>>
    /\ sent = <<>>
    /\ call = [op |-> "__init__"]
    /\ raised = NoError
    /\ ret = RetNone

CreateOrGetSandbox(sandbox_id, outcome, cap) ==
    LET r == CreateOrGetResult(_sandboxes, sandboxObjs, sandbox_id, outcome) IN
    /\ Len(r.objs) <= cap
    /\ _sandboxes' = r.cache
    /\ sandboxObjs' = r.objs
    /\ sent' = r.sent
    /\ before' = Snapshot
    /\ call' = [op |-> "create_or_get_sandbox", sandbox_id |-> sandbox_id]
    /\ raised' = r.raised
    /\ ret' = r.ret
    /\ issued' = IF r.raised = NoError THEN [issued EXCEPT ![sandbox_id] = r.ret.ref] ELSE issued
    /\ UNCHANGED sessionObjs

create_or_get_sandbox ==
    \E sandbox_id \in SandboxIds, outcome \in Outcomes :
        CreateOrGetSandbox(sandbox_id, outcome, MaxSandboxObjs)

(* destroy_sandbox forgetting the default session of the handles of the sandbox as well *)
DestroySandbox_drops_default(sandbox_id, outcome) ==
    LET r == DestroyResult(_sandboxes, sandbox_id, outcome) IN
    /\ _sandboxes' = r.cache
    /\ sent' = r.sent
    /\ before' = Snapshot
    /\ call' = [op |-> "destroy_sandbox", sandbox_id |-> sandbox_id]
    /\ raised' = r.raised
    /\ ret' = RetNone
    /\ issued' = IF r.raised = NoError THEN [issued EXCEPT ![sandbox_id] = 0] ELSE issued
    /\ sandboxObjs' = [h \in 1..Len(sandboxObjs) |->
                          IF r.raised = NoError /\ sandboxObjs[h].sandbox_id = sandbox_id
                          THEN [sandboxObjs[h] EXCEPT !._default_session = 0]
                          ELSE sandboxObjs[h]]
    /\ UNCHANGED sessionObjs

DestroySandbox(sandbox_id, outcome) ==
    LET r == DestroyResult(_sandboxes, sandbox_id, outcome) IN
    /\ _sandboxes' = r.cache
    /\ sent' = r.sent
    /\ before' = Snapshot
    /\ call' = [op |-> "destroy_sandbox", sandbox_id |-> sandbox_id]
    /\ raised' = r.raised
    /\ ret' = RetNone
    /\ issued' = IF r.raised = NoError THEN [issued EXCEPT ![sandbox_id] = 0] ELSE issued
    /\ UNCHANGED <<sandboxObjs, sessionObjs>>

destroy_sandbox ==
    \E sandbox_id \in SandboxIds, outcome \in Outcomes : DestroySandbox(sandbox_id, outcome)

destroy_all_sandboxes ==
    \E continue_on_error \in BOOLEAN, outcomes \in [1..Len(_sandboxes) -> BatchOutcomes] :
        LET r == DestroyAllResult(_sandboxes, outcomes, continue_on_error) IN
        /\ _sandboxes' = r.cache
        /\ sent' = r.sent
        /\ before' = Snapshot
        /\ call' = [op |-> "destroy_all_sandboxes", continue_on_error |-> continue_on_error]
        /\ raised' = r.raised
        /\ ret' = r.ret
        /\ issued' = [id \in SandboxIds |-> IF id \in SeqToSet(r.destroyed) THEN 0 ELSE issued[id]]
        /\ UNCHANGED <<sandboxObjs, sessionObjs>>

(* ---------------------------------------------------------------------- *)
(* Calls on handles the caller holds                                       *)
(* ---------------------------------------------------------------------- *)
SandboxHandles == 1..Len(sandboxObjs)
SessionHandles == 1..Len(sessionObjs)
SessionIdOf(eobjs, s) == eobjs[s].session_id
SandboxIdOf(sobjs, eobjs, s) == sobjs[eobjs[s].sandbox].sandbox_id

(* a call on a session handle that binds the handle to the default session when it fails *)
SessionCallArgs_rebinds(op, s, res, args) ==
    /\ sent' = res.sent
    /\ raised' = res.raised
    /\ ret' = res.ret
    /\ before' = Snapshot
    /\ call' = args @@ [op |-> op, on |-> "ExecutionSession", session |-> s,
                        sandbox |-> sessionObjs[s].sandbox]
    /\ sessionObjs' = IF res.raised = NoError THEN sessionObjs
                      ELSE [sessionObjs EXCEPT ![s].session_id = "default"]
    /\ UNCHANGED <<_sandboxes, sandboxObjs, issued>>

(* A call of method op on ExecutionSession s with result res; args are the arguments
   of the call that are kept on record. *)
SessionCallArgs(op, s, res, args) ==
    /\ sent' = res.sent
    /\ raised' = res.raised
    /\ ret' = res.ret
    /\ before' = Snapshot
    /\ call' = args @@ [op |-> op, on |-> "ExecutionSession", session |-> s,
                        sandbox |-> sessionObjs[s].sandbox]
    /\ UNCHANGED <<_sandboxes, sandboxObjs, sessionObjs, issued>>

SessionCall(op, s, res) ==
    SessionCallArgs(op, s, res, <<>>)

(* a call on a sandbox handle that drops the handle from the cache when it fails *)
DefaultCallArgs_uncaches(op, h, d, res, args, cap) ==
    /\ Len(d.sessionObjs) <= cap
    /\ sandboxObjs' = d.sandboxObjs
    /\ sessionObjs' = d.sessionObjs
    /\ sent' = res.sent
    /\ raised' = res.raised
    /\ ret' = res.ret
    /\ before' = Snapshot
    /\ call' = args @@ [op |-> op, on |-> "Sandbox", session |-> d.session, sandbox |-> h]
    /\ _sandboxes' = IF res.raised = NoError THEN _sandboxes
                     ELSE SelectSeq(_sandboxes, LAMBDA e : e.value # h)
    /\ UNCHANGED issued

(* A call of method op on Sandbox h, forwarded to self._default; d is what _default
   gave, args are the arguments kept on record and cap bounds the session objects. *)
DefaultCallArgs(op, h, d, res, args, cap) ==
    /\ Len(d.sessionObjs) <= cap
    /\ sandboxObjs' = d.sandboxObjs
    /\ sessionObjs' = d.sessionObjs
    /\ sent' = res.sent
    /\ raised' = res.raised
    /\ ret' = res.ret
    /\ before' = Snapshot
    /\ call' = args @@ [op |-> op, on |-> "Sandbox", session |-> d.session, sandbox |-> h]
    /\ UNCHANGED <<_sandboxes, issued>>

DefaultCall(op, h, d, res) ==
    DefaultCallArgs(op, h, d, res, <<>>, MaxSessionObjs)

Write(contents) ==
    \E s \in SessionHandles, path \in Paths, content \in contents, outcome \in HandleOutcomes :
        SessionCallArgs("write", s, write_result(SessionIdOf(sessionObjs, s),
            SandboxIdOf(sandboxObjs, sessionObjs, s), path, content, outcome),
            [path |-> path, content |-> content])

write ==
    Write(Contents)

(* write of binary data in base64 *)
base64_write ==
    Write(Base64Contents)

(* download of the path the call before wrote with success, through the same session
   handle: the remote service stored the content of the write request as the bytes of
   the file and answers from the file. *)
download_written ==
    /\ call.op = "write"
    /\ call.on = "ExecutionSession"
    /\ raised = NoError
    /\ \E outcome \in {RemoteRead(call.content), TransportFailure("Timeout")} :
           SessionCallArgs("download", call.session,
               download_result(SessionIdOf(sessionObjs, call.session),
                   SandboxIdOf(sandboxObjs, sessionObjs, call.session), call.path, outcome),
               [path |-> call.path, written |-> call.content])

read ==
    \E s \in SessionHandles, path \in Paths, outcome \in HandleOutcomes :
        SessionCall("read", s, read_result(SessionIdOf(sessionObjs, s),
            SandboxIdOf(sandboxObjs, sessionObjs, s), path, outcome))

download ==
    \E s \in SessionHandles, path \in Paths, outcome \in HandleFileOutcomes :
        SessionCall("download", s, download_result(SessionIdOf(sessionObjs, s),
            SandboxIdOf(sandboxObjs, sessionObjs, s), path, outcome))

delete ==
    \E s \in SessionHandles, path \in Paths, outcome \in HandleOutcomes :
        SessionCall("delete", s, delete_result(SessionIdOf(sessionObjs, s),
            SandboxIdOf(sandboxObjs, sessionObjs, s), path, outcome))

mount_bucket ==
    \E s \in SessionHandles, path \in Paths, outcome \in HandleOutcomes :
        SessionCall("mount_bucket", s, mount_bucket_result(SessionIdOf(sessionObjs, s),
            SandboxIdOf(sandboxObjs, sessionObjs, s), "bucket", path,
            [endpoint |-> "https://s3"], outcome))

mkdir ==
    \E s \in SessionHandles, path \in Paths, recursive \in BOOLEAN, outcome \in HandleOutcomes :
        SessionCall("mkdir", s, mkdir_result(SessionIdOf(sessionObjs, s),
            SandboxIdOf(sandboxObjs, sessionObjs, s), path, recursive, outcome))

Exists(exists_outcomes) ==
    \E s \in SessionHandles, path \in Paths, outcome \in exists_outcomes :
        SessionCall("exists", s, exists_result(SessionIdOf(sessionObjs, s),
            SandboxIdOf(sandboxObjs, sessionObjs, s), path, outcome))

exists ==
    Exists(HandleFileOutcomes)

any_exists ==
    Exists(ExistsOutcomes)

rename ==
    \E s \in SessionHandles, old_path \in Paths, new_path \in Paths, outcome \in HandleOutcomes :
        SessionCall("rename", s, rename_result(SessionIdOf(sessionObjs, s),
            SandboxIdOf(sandboxObjs, sessionObjs, s), old_path, new_path, outcome))

move ==
    \E s \in SessionHandles, source_path \in Paths, destination_path \in Paths, outcome \in HandleOutcomes :
        SessionCall("move", s, move_result(SessionIdOf(sessionObjs, s),
            SandboxIdOf(sandboxObjs, sessionObjs, s), source_path, destination_path, outcome))

unmount_bucket ==
    \E s \in SessionHandles, path \in Paths, outcome \in HandleOutcomes :
        SessionCall("unmount_bucket", s, unmount_bucket_result(SessionIdOf(sessionObjs, s),
            SandboxIdOf(sandboxObjs, sessionObjs, s), path, outcome))

Run(run_outcomes) ==
    \E s \in SessionHandles, command \in Commands, outcome \in run_outcomes :
        SessionCall("run", s, run_result(SessionIdOf(sessionObjs, s),
            SandboxIdOf(sandboxObjs, sessionObjs, s), command, outcome))

run ==
    Run(RunOutcomes)

handle_run ==
    Run(HandleRunOutcomes)

RunScript(scripts, interpreters) ==
    \E s \in SessionHandles, script \in scripts, interpreter \in interpreters,
       sandbox_path \in {""} \cup Paths, uuid \in Uuids,
       write_outcome \in HandleOutcomes, run_outcome \in HandleRunOutcomes :
        SessionCallArgs("run_script", s, run_script_result(SessionIdOf(sessionObjs, s),
            SandboxIdOf(sandboxObjs, sessionObjs, s), script, interpreter, sandbox_path, uuid,
            write_outcome, run_outcome),
            [script |-> script, interpreter |-> interpreter, sandbox_path |-> sandbox_path])

run_script ==
    RunScript(HandleScripts, HandleInterpreters)

(* run_script for every kind of script and every interpreter *)
any_run_script ==
    RunScript(Scripts, Interpreters)

SetEnvVars(env_inputs) ==
    \E s \in SessionHandles, env_vars \in env_inputs, outcome \in HandleOutcomes :
        SessionCallArgs("set_env_vars", s, set_env_vars_result(SessionIdOf(sessionObjs, s),
            SandboxIdOf(sandboxObjs, sessionObjs, s), env_vars, outcome),
            [env_vars |-> env_vars])

set_env_vars ==
    SetEnvVars(EnvInputs)

(* set_env_vars with the offending entry at any place of the mapping *)
any_set_env_vars ==
    SetEnvVars(EnvMappings)

Sandbox_write ==
    \E h \in SandboxHandles, path \in Paths, content \in Contents, outcome \in HandleOutcomes :
        LET d == _default(sandboxObjs, sessionObjs, h) IN
        DefaultCall("write", h, d, write_result(SessionIdOf(d.sessionObjs, d.session),
            SandboxIdOf(d.sandboxObjs, d.sessionObjs, d.session), path, content, outcome))

Sandbox_read ==
    \E h \in SandboxHandles, path \in Paths, outcome \in HandleOutcomes :
        LET d == _default(sandboxObjs, sessionObjs, h) IN
        DefaultCall("read", h, d, read_result(SessionIdOf(d.sessionObjs, d.session),
            SandboxIdOf(d.sandboxObjs, d.sessionObjs, d.session), path, outcome))

Sandbox_download ==
    \E h \in SandboxHandles, path \in Paths, outcome \in HandleFileOutcomes :
        LET d == _default(sandboxObjs, sessionObjs, h) IN
        DefaultCall("download", h, d, download_result(SessionIdOf(d.sessionObjs, d.session),
            SandboxIdOf(d.sandboxObjs, d.sessionObjs, d.session), path, outcome))

Sandbox_delete ==
    \E h \in SandboxHandles, path \in Paths, outcome \in HandleOutcomes :
        LET d == _default(sandboxObjs, sessionObjs, h) IN
        DefaultCall("delete", h, d, delete_result(SessionIdOf(d.sessionObjs, d.session),
            SandboxIdOf(d.sandboxObjs, d.sessionObjs, d.session), path, outcome))

Sandbox_mount_bucket ==
    \E h \in SandboxHandles, path \in Paths, outcome \in HandleOutcomes :
        LET d == _default(sandboxObjs, sessionObjs, h) IN
        DefaultCall("mount_bucket", h, d, mount_bucket_result(SessionIdOf(d.sessionObjs, d.session),
            SandboxIdOf(d.sandboxObjs, d.sessionObjs, d.session), "bucket", path,
            [endpoint |-> "https://s3"], outcome))

Sandbox_mkdir ==
    \E h \in SandboxHandles, path \in Paths, recursive \in BOOLEAN, outcome \in HandleOutcomes :
        LET d == _default(sandboxObjs, sessionObjs, h) IN
        DefaultCall("mkdir", h, d, mkdir_result(SessionIdOf(d.sessionObjs, d.session),
            SandboxIdOf(d.sandboxObjs, d.sessionObjs, d.session), path, recursive, outcome))

Sandbox_exists ==
    \E h \in SandboxHandles, path \in Paths, outcome \in HandleFileOutcomes :
        LET d == _default(sandboxObjs, sessionObjs, h) IN
        DefaultCall("exists", h, d, exists_result(SessionIdOf(d.sessionObjs, d.session),
            SandboxIdOf(d.sandboxObjs, d.sessionObjs, d.session), path, outcome))

Sandbox_rename ==
    \E h \in SandboxHandles, old_path \in Paths, new_path \in Paths, outcome \in HandleOutcomes :
        LET d == _default(sandboxObjs, sessionObjs, h) IN
        DefaultCall("rename", h, d, rename_result(SessionIdOf(d.sessionObjs, d.session),
            SandboxIdOf(d.sandboxObjs, d.sessionObjs, d.session), old_path, new_path, outcome))

Sandbox_move ==
    \E h \in SandboxHandles, source_path \in Paths, destination_path \in Paths, outcome \in HandleOutcomes :
        LET d == _default(sandboxObjs, sessionObjs, h) IN
        DefaultCall("move", h, d, move_result(SessionIdOf(d.sessionObjs, d.session),
            SandboxIdOf(d.sandboxObjs, d.sessionObjs, d.session), source_path, destination_path,
            outcome))

Sandbox_unmount_bucket ==
    \E h \in SandboxHandles, path \in Paths, outcome \in HandleOutcomes :
        LET d == _default(sandboxObjs, sessionObjs, h) IN
        DefaultCall("unmount_bucket", h, d, unmount_bucket_result(
            SessionIdOf(d.sessionObjs, d.session),
            SandboxIdOf(d.sandboxObjs, d.sessionObjs, d.session), path, outcome))

SandboxRun(run_outcomes) ==
    \E h \in SandboxHandles, command \in Commands, outcome \in run_outcomes :
        LET d == _default(sandboxObjs, sessionObjs, h) IN
        DefaultCall("run", h, d, run_result(SessionIdOf(d.sessionObjs, d.session),
            SandboxIdOf(d.sandboxObjs, d.sessionObjs, d.session), command, outcome))

Sandbox_run ==
    SandboxRun(RunOutcomes)

handle_Sandbox_run ==
    SandboxRun(HandleRunOutcomes)

Sandbox_run_script ==
    \E h \in SandboxHandles, script \in HandleScripts, interpreter \in HandleInterpreters,
       sandbox_path \in {""} \cup Paths, uuid \in Uuids,
       write_outcome \in HandleOutcomes, run_outcome \in HandleRunOutcomes :
        LET d == _default(sandboxObjs, sessionObjs, h) IN
        DefaultCall("run_script", h, d, run_script_result(SessionIdOf(d.sessionObjs, d.session),
            SandboxIdOf(d.sandboxObjs, d.sessionObjs, d.session), script, interpreter,
            sandbox_path, uuid, write_outcome, run_outcome))

SandboxSetEnvVars(env_inputs) ==
    \E h \in SandboxHandles, env_vars \in env_inputs, outcome \in HandleOutcomes :
        LET d == _default(sandboxObjs, sessionObjs, h) IN
        DefaultCallArgs("set_env_vars", h, d,
            set_env_vars_result(SessionIdOf(d.sessionObjs, d.session),
                SandboxIdOf(d.sandboxObjs, d.sessionObjs, d.session), env_vars, outcome),
            [env_vars |-> env_vars], MaxSessionObjs)

Sandbox_set_env_vars ==
    SandboxSetEnvVars(EnvInputs)

any_Sandbox_set_env_vars ==
    SandboxSetEnvVars(EnvMappings)

(* the session ids create_or_get_session is called with; "" is an empty id or None *)
CreateSessionIds == SessionIds \cup {""}

CreateOrGetSession(cap) ==
    \E h \in SandboxHandles, session_id \in CreateSessionIds, server_session_id \in ServerSessionIds,
       outcome \in HandleOutcomes :
        LET r == _create_session(sessionObjs, h, sandboxObjs[h].sandbox_id, session_id,
                                 server_session_id, outcome) IN
        /\ Len(r.sessionObjs) <= cap
        /\ sessionObjs' = r.sessionObjs
        /\ sent' = r.sent
        /\ raised' = r.raised
        /\ ret' = r.ret
        /\ before' = Snapshot
        /\ call' = [op |-> "create_or_get_session", on |-> "Sandbox", sandbox |-> h,
                    session_id |-> session_id]
        /\ UNCHANGED <<_sandboxes, sandboxObjs, issued>>

create_or_get_session ==
    CreateOrGetSession(MaxSessionObjs)

lifecycle_create_or_get_session ==
    CreateOrGetSession(MaxLifecycleSessionObjs)

(* A file, exec, bucket or env method of Sandbox h, forwarded to self._default. *)
default_session_op ==
    \E h \in SandboxHandles, op \in {"write", "run", "mount_bucket", "set_env_vars"} :
        \E outcome \in IF op = "run" THEN HandleRunOutcomes ELSE HandleOutcomes :
            LET d == _default(sandboxObjs, sessionObjs, h)
                session_id == SessionIdOf(d.sessionObjs, d.session)
                sandbox_id == SandboxIdOf(d.sandboxObjs, d.sessionObjs, d.session)
            IN  DefaultCallArgs(op, h, d,
                    CASE op = "write" -> write_result(session_id, sandbox_id, "/p", "x", outcome)
                      [] op = "run" -> run_result(session_id, sandbox_id, "ls", outcome)
                      [] op = "mount_bucket" ->
                             mount_bucket_result(session_id, sandbox_id, "bucket", "/p",
                                                 [endpoint |-> "https://s3"], outcome)
                      [] op = "set_env_vars" ->
                             set_env_vars_result(session_id, sandbox_id,
                                 [is_dict |-> TRUE, items |-> <<EnvOk>>], outcome),
                    <<>>, MaxLifecycleSessionObjs)

delete_session ==
    \E h \in SandboxHandles, session_id \in SessionIds \cup {"s2"}, outcome \in HandleOutcomes :
        LET r == DeleteSessionResult(sandboxObjs[h].sandbox_id, session_id, outcome) IN
        /\ sent' = r.sent
        /\ raised' = r.raised
        /\ ret' = IF r.raised = NoError THEN RetRemote ELSE RetNone
        /\ before' = Snapshot
        /\ call' = [op |-> "delete_session", on |-> "Sandbox", sandbox |-> h,
                    session_id |-> session_id]
        /\ UNCHANGED <<_sandboxes, sandboxObjs, sessionObjs, issued>>

DestroyAllSessions(list_outcomes) ==
    \E h \in SandboxHandles, list_outcome \in list_outcomes, continue_on_error \in BOOLEAN :
        LET session_ids == NonDefault(ListedSessions(Sandbox_request(sandboxObjs[h].sandbox_id,
                               "GET", "/api/session/list", NoDict, NoDict, list_outcome))) IN
        \E outcomes \in [1..Len(session_ids) -> BatchOutcomes] :
            LET r == DestroyAllSessionsResult(sandboxObjs[h].sandbox_id, list_outcome, outcomes,
                                              continue_on_error) IN
            /\ sent' = r.sent
            /\ raised' = r.raised
            /\ ret' = r.ret
            /\ before' = Snapshot
            /\ call' = [op |-> "destroy_all_sessions", on |-> "Sandbox", sandbox |-> h,
                        continue_on_error |-> continue_on_error]
            /\ UNCHANGED <<_sandboxes, sandboxObjs, sessionObjs, issued>>

destroy_all_sessions ==
    DestroyAllSessions(ListOutcomes)

handle_destroy_all_sessions ==
    DestroyAllSessions(HandleListOutcomes)

handle_create_or_get_sandbox ==
    \E sandbox_id \in HandleIds, outcome \in HandleOutcomes :
        CreateOrGetSandbox(sandbox_id, outcome, MaxHandleObjs)

handle_destroy_sandbox ==
    \E sandbox_id \in HandleIds, outcome \in HandleOutcomes : DestroySandbox(sandbox_id, outcome)

Next ==
    \/ create_or_get_sandbox
    \/ destroy_sandbox
    \/ destroy_all_sandboxes

Spec == Init /\ [][Next]_vars

(* The registry together with the calls on the handles it gave out. *)
NextHandles ==
    \/ handle_create_or_get_sandbox
    \/ handle_destroy_sandbox
    \/ destroy_all_sandboxes
    \/ create_or_get_session
    \/ delete_session
    \/ handle_destroy_all_sessions
    \/ write
    \/ read
    \/ download
    \/ delete
    \/ mount_bucket
    \/ mkdir
    \/ exists
    \/ rename
    \/ move
    \/ unmount_bucket
    \/ handle_run
    \/ run_script
    \/ set_env_vars
    \/ Sandbox_write
    \/ Sandbox_read
    \/ Sandbox_download
    \/ Sandbox_delete
    \/ Sandbox_mount_bucket
    \/ Sandbox_mkdir
    \/ Sandbox_exists
    \/ Sandbox_rename
    \/ Sandbox_move
    \/ Sandbox_unmount_bucket
    \/ handle_Sandbox_run
    \/ Sandbox_run_script
    \/ Sandbox_set_env_vars

SpecHandles == Init /\ [][NextHandles]_vars

(* The calls that end sessions, on the handles the registry gave out. *)
NextSessions ==
    \/ handle_create_or_get_sandbox
    \/ handle_destroy_sandbox
    \/ delete_session
    \/ destroy_all_sessions

SpecSessions == Init /\ [][NextSessions]_vars

(* The default session of a handle among the calls that create and end sessions. *)
NextDefault ==
    \/ handle_create_or_get_sandbox
    \/ lifecycle_create_or_get_session
    \/ delete_session
    \/ handle_destroy_all_sessions
    \/ default_session_op

SpecDefault == Init /\ [][NextDefault]_vars

(* set_env_vars on session handles and on sandbox handles, for every mapping. *)
NextEnv ==
    \/ handle_create_or_get_sandbox
    \/ create_or_get_session
    \/ any_set_env_vars
    \/ any_Sandbox_set_env_vars

SpecEnv == Init /\ [][NextEnv]_vars

(* The calls that decode the body of the answer, run and exists, on session handles
   and on sandbox handles, for every body of the answer. *)
NextRun ==
    \/ handle_create_or_get_sandbox
    \/ create_or_get_session
    \/ run
    \/ Sandbox_run
    \/ any_run_script
    \/ any_exists

SpecRun == Init /\ [][NextRun]_vars

(* Binary data written in base64 and downloaded again through one session handle. *)
NextFiles ==
    \/ handle_create_or_get_sandbox
    \/ create_or_get_session
    \/ base64_write
    \/ download_written

SpecFiles == Init /\ [][NextFiles]_vars

(* Calls with and without a sandbox id: the registry creates handles for the id "a"
   and for the empty id, destroys the sandbox "a" and creates it again, so that
   handles that are no longer cached are called too, and SandboxManager._request is
   called directly, as a call that is bound to no sandbox is; sandbox_id = "" stands
   for None as well. *)
HeaderIds == {"", "a"}

header_create_or_get_sandbox ==
    \E sandbox_id \in HeaderIds, outcome \in HandleOutcomes :
        CreateOrGetSandbox(sandbox_id, outcome, MaxHeaderObjs)

router_request ==
    \E sandbox_id \in HeaderIds, method \in {"GET", "POST"}, outcome \in HandleOutcomes :
        LET r == Manager_request(method, "/", NoDict, NoDict, sandbox_id, outcome) IN
        /\ sent' = r.sent
        /\ raised' = r.raised
        /\ ret' = IF r.raised = NoError THEN RetRemote ELSE RetNone
        /\ before' = Snapshot
        /\ call' = [op |-> "_request", sandbox_id |-> sandbox_id]
        /\ UNCHANGED <<_sandboxes, sandboxObjs, sessionObjs, issued>>

NextHeaders ==
    \/ header_create_or_get_sandbox
    \/ handle_destroy_sandbox
    \/ router_request
    \/ create_or_get_session
    \/ delete_session
    \/ write
    \/ Sandbox_write

SpecHeaders == Init /\ [][NextHeaders]_vars

(* ---------------------------------------------------------------------- *)
(* Threads calling one SandboxManager without a lock                       *)
(* ---------------------------------------------------------------------- *)
(* Two threads call create_or_get_sandbox and destroy_sandbox on one registry, each
   for one sandbox id of its own choosing, the same or different. A step of a thread
   is the request with its status check, or one operation on the dict _sandboxes:
   the membership test, the store and the subscript of _append_id, and the pop of
   _remove_id. call[t] holds the call of thread t and its position pc, whether the
   call ever ran while a call of the other thread was under way (overlapped), and
   what the calls of the thread give when they run on a registry of their own
   (alone); raised[t] and ret[t] are the result of the last call of thread t, and
   sent is the transport's log of all requests in the order they were answered. *)
Threads == 1..2

(* what the subscript self._sandboxes[sandbox_id] raises for a missing key *)
KeyError == [type |-> "KeyError", status_code |-> NoStatus, message |-> "", target |-> ""]

InitThreads ==
    /\ issued = [id \in SandboxIds |-> 0]
    /\ before = [sandboxes |-> <<>>, issued |-> [id \in SandboxIds |-> 0],
                 defaults |-> <<>>, sessions |-> 0]
    /\ _sandboxes = <<>>
    /\ sandboxObjs = <<>>
    /\ sessionObjs = <<>>
    /\ sent = <<>>
    /\ \E other \in {"a", "b"} :
           call = [t \in Threads |->
                      [op |-> "__init__", sandbox_id |-> IF t = 1 THEN "a" ELSE other,
                       pc |-> "idle", calls |-> 0, overlapped |-> FALSE,
                       alone |-> [cache |-> <<>>, objs |-> <<>>, raised |-> NoError,
                                  ret |-> RetNone]]]
    /\ raised = [t \in Threads |-> NoError]
    /\ ret = [t \in Threads |-> RetNone]

(* A thread at position pc moves on to position next. *)
ThreadAt(t, pc) == call[t].pc = pc
ThreadGoes(t, next) == call' = [call EXCEPT ![t].pc = next]

(* create_or_get_sandbox and destroy_sandbox up to the status check: the request, and
   the SandboxError for a transport failure or a non-success status. *)
lifecycle_request ==
    \E t \in Threads, op \in {"create_or_get_sandbox", "destroy_sandbox"},
       outcome \in {Response(200), Response(500)} :
        LET c == call[t]
            creates == op = "create_or_get_sandbox"
            r == IF creates
                 THEN Manager_request("POST", "/lifecycle", NoDict, [options |-> "None"],
                                      c.sandbox_id, outcome)
                 ELSE Manager_request("DELETE", "/lifecycle", NoDict, NoDict, c.sandbox_id, outcome)
            e == Checked(r, IF creates THEN "Failed to create sandbox"
                            ELSE "Failed to destroy sandbox", c.sandbox_id)
            a == IF creates
                 THEN CreateOrGetResult(c.alone.cache, c.alone.objs, c.sandbox_id, outcome)
                 ELSE DestroyResult(c.alone.cache, c.sandbox_id, outcome)
            under_way == {u \in Threads \ {t} : call[u].pc # "idle"}
        IN  /\ ThreadAt(t, "idle")
            /\ c.calls < MaxThreadCalls
            /\ sent' = sent \o r.sent
            /\ raised' = [raised EXCEPT ![t] = e]
            /\ ret' = [ret EXCEPT ![t] = RetNone]
            /\ call' = [u \in Threads |->
                           IF u = t
                           THEN [op |-> op, sandbox_id |-> c.sandbox_id,
                                 pc |-> IF e # NoError THEN "idle"
                                        ELSE IF creates THEN "check" ELSE "pop",
                                 calls |-> c.calls + 1,
                                 overlapped |-> c.overlapped \/ under_way # {},
                                 alone |-> [cache |-> a.cache,
                                            objs |-> IF creates THEN a.objs ELSE c.alone.objs,
                                            raised |-> a.raised,
                                            ret |-> IF creates THEN a.ret ELSE RetNone]]
                           ELSE IF u \in under_way THEN [call[u] EXCEPT !.overlapped = TRUE]
                           ELSE call[u]]
            /\ UNCHANGED <<_sandboxes, sandboxObjs, sessionObjs, issued, before>>

(* _append_id going on to the subscript without the store *)
_append_id_check_never_stores ==
    \E t \in Threads :
        /\ ThreadAt(t, "check")
        /\ ThreadGoes(t, "subscript")
        /\ UNCHANGED <<_sandboxes, sandboxObjs, sessionObjs, sent, raised, ret, issued, before>>

(* _append_id storing a new Sandbox whether the id is cached or not *)
_append_id_check_always_stores ==
    \E t \in Threads :
        /\ ThreadAt(t, "check")
        /\ ThreadGoes(t, "store")
        /\ UNCHANGED <<_sandboxes, sandboxObjs, sessionObjs, sent, raised, ret, issued, before>>

(* _append_id: if sandbox_id not in self._sandboxes *)
_append_id_check ==
    \E t \in Threads :
        /\ ThreadAt(t, "check")
        /\ ThreadGoes(t, IF call[t].sandbox_id \notin Keys(_sandboxes) THEN "store" ELSE "subscript")
        /\ UNCHANGED <<_sandboxes, sandboxObjs, sessionObjs, sent, raised, ret, issued, before>>

(* _append_id: self._sandboxes[sandbox_id] = Sandbox(sandbox_id, self); a store under
   a key the dict has by now replaces the value. *)
_append_id_store ==
    \E t \in Threads :
        LET sandbox_id == call[t].sandbox_id
            entry == [key |-> sandbox_id, value |-> Len(sandboxObjs) + 1]
        IN  /\ ThreadAt(t, "store")
            /\ ThreadGoes(t, "subscript")
            /\ sandboxObjs' = Append(sandboxObjs, [sandbox_id |-> sandbox_id, _default_session |-> 0])
            /\ _sandboxes' = IF sandbox_id \in Keys(_sandboxes)
                             THEN [i \in 1..Len(_sandboxes) |->
                                      IF _sandboxes[i].key = sandbox_id THEN entry
                                      ELSE _sandboxes[i]]
                             ELSE Append(_sandboxes, entry)
            /\ UNCHANGED <<sessionObjs, sent, raised, ret, issued, before>>

(* _append_id: return self._sandboxes[sandbox_id] *)
_append_id_subscript ==
    \E t \in Threads :
        /\ ThreadAt(t, "subscript")
        /\ ThreadGoes(t, "idle")
        /\ IF call[t].sandbox_id \in Keys(_sandboxes)
           THEN /\ ret' = [ret EXCEPT ![t] = RetSandbox(Lookup(_sandboxes, call[t].sandbox_id))]
                /\ UNCHANGED raised
           ELSE /\ raised' = [raised EXCEPT ![t] = KeyError]
                /\ UNCHANGED ret
        /\ UNCHANGED <<_sandboxes, sandboxObjs, sessionObjs, sent, issued, before>>

(* _remove_id: self._sandboxes.pop(sandbox_id, None) *)
_remove_id_pop ==
    \E t \in Threads :
        /\ ThreadAt(t, "pop")
        /\ ThreadGoes(t, "idle")
        /\ _sandboxes' = _remove_id(_sandboxes, call[t].sandbox_id)
        /\ UNCHANGED <<sandboxObjs, sessionObjs, sent, raised, ret, issued, before>>

NextThreads ==
    \/ lifecycle_request
    \/ _append_id_check
    \/ _append_id_store
    \/ _append_id_subscript
    \/ _remove_id_pop

SpecThreads == InitThreads /\ [][NextThreads]_vars

(* ---------------------------------------------------------------------- *)
(* Properties                                                              *)
(* ---------------------------------------------------------------------- *)
Success(reply) == reply.exc = "None" /\ reply.status_code < 400

(* q is the lifecycle request with the given verb for sandbox_id *)
IsLifecycle(q, method, sandbox_id) ==
    /\ q.method = method
    /\ q.path = "/lifecycle"
    /\ q.headers = [x_sandbox_id |-> sandbox_id]

Targeted == {sent[i].headers.x_sandbox_id : i \in 1..Len(sent)}

(* C1: the cache never holds two entries for one sandbox id, and a successful
   create_or_get_sandbox for an id returns the handle the previous successful
   create_or_get_sandbox for that id returned when no destroy of the id has
   succeeded in between. *)
C1_SameHandle ==
    /\ \A i, j \in 1..Len(_sandboxes) : _sandboxes[i].key = _sandboxes[j].key => i = j
    /\ (call.op = "create_or_get_sandbox" /\ raised = NoError
            /\ before.issued[call.sandbox_id] # 0)
        => ret = RetSandbox(before.issued[call.sandbox_id])

C1_Witness ==
    /\ call.op = "create_or_get_sandbox"
    /\ raised = NoError
    /\ before.issued[call.sandbox_id] # 0
    /\ Len(_sandboxes) >= 2

(* C2: delete_session("default") raises SandboxError without status code and sends
   no request to the transport. *)
C2_DeleteDefaultSession ==
    (call.op = "delete_session" /\ call.session_id = "default")
        => /\ raised.type = "SandboxError"
           /\ raised.status_code = NoStatus
           /\ sent = <<>>

C2_Witness ==
    /\ call.op = "delete_session"
    /\ call.session_id = "default"
    /\ sandboxObjs[call.sandbox]._default_session # 0

SessionOps == {"write", "read", "download", "delete", "mount_bucket", "mkdir", "exists",
               "rename", "move", "unmount_bucket", "run", "run_script", "set_env_vars"}

(* C3: every request of a call on a session handle carries the handle's session id
   in the JSON body and not in the query when the verb is POST or PUT, and in the
   query and not in the body when the verb is GET or DELETE; no other verb is used. *)
C3_SessionIdPlacement ==
    call.op \in SessionOps =>
        \A i \in 1..Len(sent) :
            LET q == sent[i]
                sid == sessionObjs[call.session].session_id
            IN  /\ q.method \in {"POST", "PUT", "GET", "DELETE"}
                /\ q.method \in {"POST", "PUT"} =>
                       /\ "sessionId" \in DOMAIN q.json
                       /\ q.json["sessionId"] = sid
                       /\ "sessionId" \notin DOMAIN q.params
                /\ q.method \in {"GET", "DELETE"} =>
                       /\ "sessionId" \in DOMAIN q.params
                       /\ q.params["sessionId"] = sid
                       /\ "sessionId" \notin DOMAIN q.json

C3_Witness ==
    /\ call.op = "run_script"
    /\ call.on = "ExecutionSession"
    /\ sessionObjs[call.session].session_id = "s2"
    /\ Len(sent) = 2

(* C4: destroy_sandbox changes the cache only when the remote call succeeded; when
   the response is non-success or the transport fails it raises and the cache is
   the one before the call, and a successful create_or_get_sandbox of a cached id
   returns the cached handle. *)
C4_DestroyFailureKeepsCache ==
    /\ (call.op = "destroy_sandbox" /\ ~Success(sent[1].reply))
        => /\ raised.type = "SandboxError"
           /\ _sandboxes = before.sandboxes
    /\ (call.op = "destroy_sandbox" /\ _sandboxes # before.sandboxes)
        => /\ Success(sent[1].reply)
           /\ _sandboxes = Pop(before.sandboxes, call.sandbox_id)
    /\ (call.op = "create_or_get_sandbox" /\ raised = NoError
            /\ call.sandbox_id \in Keys(before.sandboxes))
        => ret = RetSandbox(Lookup(before.sandboxes, call.sandbox_id))

C4_Witness ==
    /\ call.op = "destroy_sandbox"
    /\ raised # NoError
    /\ call.sandbox_id \in Keys(_sandboxes)

(* C5: a create_or_get_sandbox whose remote call is non-success or fails raises and
   leaves the cache as it was; an entry is new in the cache only after a
   create_or_get_sandbox of that id whose remote call succeeded. *)
C5_CreateFailureKeepsCache ==
    /\ (call.op = "create_or_get_sandbox" /\ ~Success(sent[1].reply))
        => /\ raised.type = "SandboxError"
           /\ ret = RetNone
           /\ _sandboxes = before.sandboxes
    /\ \A i \in 1..Len(_sandboxes) :
           _sandboxes[i] \notin SeqToSet(before.sandboxes)
               => /\ call.op = "create_or_get_sandbox"
                  /\ raised = NoError
                  /\ Success(sent[1].reply)
                  /\ _sandboxes[i].key = call.sandbox_id

C5_Witness ==
    /\ call.op = "create_or_get_sandbox"
    /\ raised # NoError
    /\ _sandboxes # <<>>
    /\ call.sandbox_id \notin Keys(_sandboxes)

(* C6: destroy_sandbox of an id without cached handle sends exactly one
   DELETE /lifecycle request carrying the id, and when that succeeds it returns
   normally with the cache unchanged. *)
C6_DestroyUncached ==
    (call.op = "destroy_sandbox" /\ call.sandbox_id \notin Keys(before.sandboxes))
        => /\ Len(sent) = 1
           /\ IsLifecycle(sent[1], "DELETE", call.sandbox_id)
           /\ Success(sent[1].reply) => (raised = NoError /\ _sandboxes = before.sandboxes)

C6_Witness ==
    /\ call.op = "destroy_sandbox"
    /\ call.sandbox_id \notin Keys(before.sandboxes)
    /\ before.sandboxes # <<>>
    /\ raised = NoError

(* C7: create_or_get_sandbox of an id that is in the cache sends no request. *)
C7_CachedNoRemoteCall ==
    (call.op = "create_or_get_sandbox" /\ call.sandbox_id \in Keys(before.sandboxes))
        => sent = <<>>

(* C8: destroy_all_sandboxes with continue_on_error false destroys the cached ids in
   iteration order up to the first failure, raises that failure without a summary,
   sends nothing for the ids after it, and leaves the failing id and the ids after
   it cached in their order. *)
C8_FailFast ==
    (call.op = "destroy_all_sandboxes" /\ ~call.continue_on_error) =>
        LET ids == KeyList(before.sandboxes)
            k == Len(sent)
        IN  /\ k <= Len(ids)
            /\ \A i \in 1..k : IsLifecycle(sent[i], "DELETE", ids[i])
            /\ \A i \in 1..(k - 1) : Success(sent[i].reply)
            /\ IF k > 0 /\ ~Success(sent[k].reply)
               THEN /\ raised.type = "SandboxError"
                    /\ raised.status_code = sent[k].reply.status_code
                    /\ ret = RetNone
                    /\ _sandboxes = SubSeq(before.sandboxes, k, Len(ids))
               ELSE /\ k = Len(ids)
                    /\ raised = NoError
                    /\ _sandboxes = <<>>

C8_Witness ==
    /\ call.op = "destroy_all_sandboxes"
    /\ ~call.continue_on_error
    /\ raised # NoError
    /\ Len(before.sandboxes) = 3
    /\ Len(sent) = 2

(* C9: destroy_all_sandboxes with continue_on_error true sends a destroy for every
   cached id, never raises, and reports total = number of ids cached at the start,
   success_count = number destroyed, failure_count = number of failures, with
   success_count + failure_count = total. *)
C9_ContinueCounts ==
    (call.op = "destroy_all_sandboxes" /\ call.continue_on_error) =>
        LET ids == KeyList(before.sandboxes) IN
        /\ raised = NoError
        /\ Len(sent) = Len(ids)
        /\ \A i \in 1..Len(ids) : IsLifecycle(sent[i], "DELETE", ids[i])
        /\ ret.total = Len(ids)
        /\ ret.success_count = Len(ret.destroyed)
        /\ ret.success_count = Cardinality({i \in 1..Len(sent) : Success(sent[i].reply)})
        /\ ret.failure_count = Len(ret.failed)
        /\ ret.failure_count = Cardinality({i \in 1..Len(sent) : ~Success(sent[i].reply)})
        /\ ret.success_count + ret.failure_count = ret.total

C9_Witness ==
    /\ call.op = "destroy_all_sandboxes"
    /\ call.continue_on_error
    /\ Len(sent) = 3
    /\ Success(sent[1].reply) /\ ~Success(sent[2].reply) /\ Success(sent[3].reply)
    /\ ret.total = 3 /\ ret.success_count = 2 /\ ret.failure_count = 1

(* C10: destroy_all_sandboxes sends destroy requests only, and only for ids that
   were cached when it was called; with continue_on_error true for all of them. *)
C10_OnlyCachedTargeted ==
    call.op = "destroy_all_sandboxes" =>
        /\ \A i \in 1..Len(sent) : sent[i].method = "DELETE" /\ sent[i].path = "/lifecycle"
        /\ Targeted \subseteq Keys(before.sandboxes)
        /\ call.continue_on_error => Targeted = Keys(before.sandboxes)

C10_Witness ==
    /\ call.op = "destroy_all_sandboxes"
    /\ sent # <<>>
    /\ \E id \in SandboxIds :
           /\ id \notin Keys(before.sandboxes)
           /\ \E h \in 1..Len(sandboxObjs) : sandboxObjs[h].sandbox_id = id

(* The session ids of the listing destroy_all_sessions received in this call. *)
Listed ==
    IF sent # <<>> /\ sent[1].path = "/api/session/list" /\ Success(sent[1].reply)
       /\ "body" \in DOMAIN sent[1].reply
    THEN IF sent[1].reply.body.json = "dict" /\ "data" \in DOMAIN sent[1].reply.body.value
         THEN sent[1].reply.body.value.data
         ELSE IF sent[1].reply.body.json = "list" THEN sent[1].reply.body.value ELSE <<>>
    ELSE <<>>

(* C11: no request to delete the session "default" is ever sent: delete_session
   rejects it before any request, and destroy_all_sessions leaves it out of the
   sessions it deletes however often the listing names it, so that it is neither
   destroyed nor reported as failed. *)
C11_NoDefaultSessionDelete ==
    /\ \A i \in 1..Len(sent) :
           (sent[i].method = "DELETE" /\ sent[i].path = "/session")
               => sent[i].params.session_id # "default"
    /\ (call.op = "delete_session" /\ call.session_id = "default") => sent = <<>>
    /\ call.op = "destroy_all_sessions" =>
           /\ raised.target # "default"
           /\ raised = NoError =>
                  /\ "default" \notin SeqToSet(ret.destroyed)
                  /\ \A i \in 1..Len(ret.failed) : ret.failed[i][1] # "default"
                  /\ ret.total = Cardinality({i \in 1..Len(Listed) : Listed[i] # "default"})

C11_Witness ==
    /\ call.op = "destroy_all_sessions"
    /\ Cardinality({i \in 1..Len(Listed) : Listed[i] = "default"}) >= 2
    /\ raised = NoError
    /\ ret.total = 0

(* C12: when the listing request of destroy_all_sessions fails in the transport or is
   answered with a non-success status, the call raises nothing, sends no request to
   delete a session and returns the empty result, whatever continue_on_error is. *)
C12_ListingUnavailable ==
    (call.op = "destroy_all_sessions" /\ ~Success(sent[1].reply)) =>
        /\ raised = NoError
        /\ Len(sent) = 1
        /\ ret = [kind |-> "dict", destroyed |-> <<>>, failed |-> <<>>, total |-> 0,
                  success_count |-> 0, failure_count |-> 0]

C12_Witness ==
    /\ call.op = "destroy_all_sessions"
    /\ ~call.continue_on_error
    /\ sent[1].reply.exc = "Timeout"
    /\ ret.total = 0

(* The listed sessions destroy_all_sessions is to delete, and the delete requests it sent. *)
ListedNonDefault == SelectSeq(Listed, LAMBDA sid : sid # "default")
SessionDeletes == SubSeq(sent, 2, Len(sent))

(* C13: destroy_all_sessions deletes the listed sessions other than "default" in the
   order of the listing. With continue_on_error false the first failing delete is
   raised to the caller and no later session is attempted; with continue_on_error
   true every one of them is attempted, nothing is raised, and success_count +
   failure_count = total = the number of listed sessions other than "default". *)
C13_SessionAbortContinue ==
    call.op = "destroy_all_sessions" =>
        /\ Len(SessionDeletes) <= Len(ListedNonDefault)
        /\ \A i \in 1..Len(SessionDeletes) :
               /\ SessionDeletes[i].method = "DELETE" /\ SessionDeletes[i].path = "/session"
               /\ SessionDeletes[i].params.session_id = ListedNonDefault[i]
        /\ ~call.continue_on_error =>
               /\ \A i \in 1..(Len(SessionDeletes) - 1) : Success(SessionDeletes[i].reply)
               /\ raised = NoError =>
                      /\ Len(SessionDeletes) = Len(ListedNonDefault)
                      /\ \A i \in 1..Len(SessionDeletes) : Success(SessionDeletes[i].reply)
               /\ raised # NoError =>
                      /\ ~Success(SessionDeletes[Len(SessionDeletes)].reply)
                      /\ raised.type = "SandboxError"
                      /\ raised.status_code = SessionDeletes[Len(SessionDeletes)].reply.status_code
                      /\ ret = RetNone
        /\ call.continue_on_error =>
               /\ raised = NoError
               /\ Len(SessionDeletes) = Len(ListedNonDefault)
        /\ raised = NoError =>
               /\ ret.total = Len(ListedNonDefault)
               /\ ret.success_count = Cardinality({i \in 1..Len(SessionDeletes) :
                                                      Success(SessionDeletes[i].reply)})
               /\ ret.failure_count = Cardinality({i \in 1..Len(SessionDeletes) :
                                                      ~Success(SessionDeletes[i].reply)})
               /\ ret.success_count = Len(ret.destroyed)
               /\ ret.failure_count = Len(ret.failed)
               /\ ret.success_count + ret.failure_count = ret.total

C13_Witness ==
    /\ call.op = "destroy_all_sessions"
    /\ call.continue_on_error
    /\ Len(ListedNonDefault) = 2
    /\ ~Success(SessionDeletes[1].reply) /\ Success(SessionDeletes[2].reply)
    /\ ret.total = 2 /\ ret.success_count = 1 /\ ret.failure_count = 1

(* The places of a mapping whose key or value is no string. *)
Offending(env_vars) ==
    {i \in 1..Len(env_vars.items) :
        ~env_vars.items[i].key_is_str \/ ~env_vars.items[i].value_is_str}

(* C14: set_env_vars, on a session or on a sandbox, called with a mapping that has a
   key or a value that is no string at any place, fails without sending a request. *)
C14_EnvValidatedFirst ==
    (call.op = "set_env_vars" /\ call.env_vars.is_dict /\ Offending(call.env_vars) # {}) =>
        /\ sent = <<>>
        /\ raised # NoError
        /\ ret = RetNone

C14_Witness ==
    /\ call.op = "set_env_vars"
    /\ call.on = "Sandbox"
    /\ call.env_vars.is_dict
    /\ Len(call.env_vars.items) = MaxEnvLen
    /\ Offending(call.env_vars) = {MaxEnvLen}
    /\ sent = <<>>
    /\ raised # NoError

(* C15: every failure a public operation reports to its caller is a SandboxError;
   no exception of another type leaves a call. *)
C15_OnlySandboxError ==
    raised.type \in {"None", "SandboxError"}

(* The request of a log entry, without what the transport answered. *)
RequestOf(q) == [method |-> q.method, path |-> q.path, params |-> q.params,
                 json |-> q.json, headers |-> q.headers]
TransportFailed(q) == q.reply.exc # "None"
(* the transport failure of request i is caught inside the call: destroy_all_sessions
   swallows the failure of its listing, a batch that continues records the failure *)
Swallowed(i) == call.op = "destroy_all_sessions" /\ i = 1
Collected(i) ==
    /\ call.op \in {"destroy_all_sandboxes", "destroy_all_sessions"}
    /\ call.continue_on_error
    /\ ~Swallowed(i)

(* C16 as stated: whenever the transport fails during an operation, the operation
   raises a SandboxError without status code. *)
C16_TransportFailureRaised ==
    \A i \in 1..Len(sent) :
        TransportFailed(sent[i]) => (raised.type = "SandboxError" /\ raised.status_code = NoStatus)

(* C16, amended: a request whose transport fails is sent once and never again, and
   the cache keeps the entry it was sent for. A single-resource operation and a batch
   that does not continue raise the SandboxError without status code at once, no
   further request follows; a batch that continues records the failure and goes on
   with the next resource; destroy_all_sessions swallows the failure of its listing
   request and returns the empty result. *)
C16_TransportFailureOnce ==
    \A i \in 1..Len(sent) :
        TransportFailed(sent[i]) =>
            /\ i < Len(sent) => RequestOf(sent[i + 1]) # RequestOf(sent[i])
            /\ Swallowed(i) => (raised = NoError /\ Len(sent) = 1 /\ ret.total = 0)
            /\ Collected(i) =>
                   /\ raised = NoError
                   /\ ret.failure_count >= 1
                   /\ \E k \in 1..Len(ret.failed) :
                          ret.failed[k][1] = IF call.op = "destroy_all_sandboxes"
                                             THEN sent[i].headers.x_sandbox_id
                                             ELSE sent[i].params.session_id
            /\ (~Swallowed(i) /\ ~Collected(i)) =>
                   /\ i = Len(sent)
                   /\ raised.type = "SandboxError"
                   /\ raised.status_code = NoStatus
                   /\ ret = RetNone
            /\ call.op \in {"create_or_get_sandbox", "destroy_sandbox"} =>
                   _sandboxes = before.sandboxes
            /\ call.op = "destroy_all_sandboxes" =>
                   sent[i].headers.x_sandbox_id \in Keys(_sandboxes)

C16_Witness ==
    /\ call.op = "destroy_all_sessions"
    /\ call.continue_on_error
    /\ Len(sent) = 3
    /\ TransportFailed(sent[2])
    /\ Success(sent[3].reply)
    /\ ret.failure_count = 1 /\ ret.success_count = 1

(* The transport answered with a response whose status is no success (resp.ok false). *)
Rejected(q) == q.reply.exc = "None" /\ q.reply.status_code >= 400
SingleResourceOps == SessionOps \cup {"create_or_get_sandbox", "destroy_sandbox",
                                      "create_or_get_session", "delete_session"}

(* C17: a call on one resource that receives a response without success status
   raises a SandboxError that carries the status of that response, and sends nothing
   after it; a SandboxError with a status code comes from such a response only. *)
C17_StatusCarried ==
    call.op \in SingleResourceOps =>
        /\ \A i \in 1..Len(sent) :
               Rejected(sent[i]) =>
                   /\ i = Len(sent)
                   /\ raised.type = "SandboxError"
                   /\ raised.status_code = sent[i].reply.status_code
                   /\ ret = RetNone
        /\ raised.status_code # NoStatus =>
               /\ sent # <<>>
               /\ Rejected(sent[Len(sent)])
               /\ raised.status_code = sent[Len(sent)].reply.status_code
        /\ (\A i \in 1..Len(sent) : Success(sent[i].reply)) => raised.status_code = NoStatus

C17_Witness ==
    /\ call.op = "mkdir"
    /\ call.on = "ExecutionSession"
    /\ Len(sent) = 1
    /\ sent[1].reply.status_code = 404
    /\ raised.type = "SandboxError"
    /\ raised.status_code = 404

(* C18: run decides between return and raise by the status of the response alone.
   Answered with a success status and a body that carries a result object, it raises
   nothing and returns that object as it is, whatever its exit code and success
   flag; answered without success status, it raises the SandboxError of that status. *)
C18_RunStatusOnly ==
    call.op = "run" =>
        /\ Len(sent) = 1
        /\ Rejected(sent[1]) =>
               (raised.type = "SandboxError" /\ raised.status_code = sent[1].reply.status_code)
        /\ (Success(sent[1].reply) /\ sent[1].reply.body.json = "dict") =>
               /\ raised = NoError
               /\ \E sh \in RunShapes, res \in RunResults :
                      /\ sent[1].reply.body.value = RunBody(sh, res)
                      /\ ret = [kind |-> "remote", value |-> res]

C18_Witness ==
    /\ call.op = "run"
    /\ Success(sent[1].reply)
    /\ sent[1].reply.body = JsonDict(RunBody("envelope", [exitCode |-> 1, success |-> FALSE]))
    /\ raised = NoError
    /\ ret.value = [exitCode |-> 1, success |-> FALSE]

(* What the method op of a session handle bound to sandbox_id and session_id can do:
   the requests it sends, what it raises and what it returns, over the arguments and
   transport outcomes of the calls on handles. *)
DirectResults(op, session_id, sandbox_id) ==
    CASE op = "write" ->
             {write_result(session_id, sandbox_id, p, c, o) :
                 p \in Paths, c \in Contents, o \in HandleOutcomes}
      [] op = "read" ->
             {read_result(session_id, sandbox_id, p, o) : p \in Paths, o \in HandleOutcomes}
      [] op = "download" ->
             {download_result(session_id, sandbox_id, p, o) : p \in Paths, o \in HandleFileOutcomes}
      [] op = "delete" ->
             {delete_result(session_id, sandbox_id, p, o) : p \in Paths, o \in HandleOutcomes}
      [] op = "mount_bucket" ->
             {mount_bucket_result(session_id, sandbox_id, "bucket", p, [endpoint |-> "https://s3"], o) :
                 p \in Paths, o \in HandleOutcomes}
      [] op = "mkdir" ->
             {mkdir_result(session_id, sandbox_id, p, rec, o) :
                 p \in Paths, rec \in BOOLEAN, o \in HandleOutcomes}
      [] op = "exists" ->
             {exists_result(session_id, sandbox_id, p, o) : p \in Paths, o \in HandleFileOutcomes}
      [] op = "rename" ->
             {rename_result(session_id, sandbox_id, p1, p2, o) :
                 p1 \in Paths, p2 \in Paths, o \in HandleOutcomes}
      [] op = "move" ->
             {move_result(session_id, sandbox_id, p1, p2, o) :
                 p1 \in Paths, p2 \in Paths, o \in HandleOutcomes}
      [] op = "unmount_bucket" ->
             {unmount_bucket_result(session_id, sandbox_id, p, o) :
                 p \in Paths, o \in HandleOutcomes}
      [] op = "run" ->
             {run_result(session_id, sandbox_id, c, o) : c \in Commands, o \in HandleRunOutcomes}
      [] op = "run_script" ->
             {run_script_result(session_id, sandbox_id, sc, int, sp, u, wo, ro) :
                 sc \in HandleScripts, int \in HandleInterpreters, sp \in {""} \cup Paths,
                 u \in Uuids, wo \in HandleOutcomes, ro \in HandleRunOutcomes}
      [] op = "set_env_vars" ->
             {set_env_vars_result(session_id, sandbox_id, ev, o) :
                 ev \in EnvInputs, o \in HandleOutcomes}

(* C19: a file, directory, bucket, exec or env method called on a sandbox handle does
   what the same method does on a session handle bound to that sandbox and the
   session id "default": it sends the same requests, raises and returns the same.
   Every request carries the session id "default" and the sandbox id in the
   x-sandbox-id header, and none is a POST /session. *)
C19_SandboxAsDefaultSession ==
    (call.op \in SessionOps /\ call.on = "Sandbox") =>
        LET sandbox_id == sandboxObjs[call.sandbox].sandbox_id IN
        /\ sessionObjs[call.session] = [session_id |-> "default", sandbox |-> call.sandbox]
        /\ [sent |-> sent, raised |-> raised, ret |-> ret]
               \in DirectResults(call.op, "default", sandbox_id)
        /\ \A i \in 1..Len(sent) :
               /\ sent[i].headers = [x_sandbox_id |-> sandbox_id]
               /\ ~(sent[i].method = "POST" /\ sent[i].path = "/session")
               /\ IF sent[i].method \in {"POST", "PUT"}
                  THEN sent[i].json["sessionId"] = "default"
                  ELSE sent[i].params["sessionId"] = "default"

C19_Witness ==
    /\ call.op = "run_script"
    /\ call.on = "Sandbox"
    /\ Len(sent) = 2
    /\ raised = NoError
    /\ sent[2].json["sessionId"] = "default"
    /\ sent[2].headers = [x_sandbox_id |-> "a"]

(* The call was a file, exec, bucket or env method of sandbox handle h. *)
UsesDefaultOf(h) == call.op \in SessionOps /\ call.on = "Sandbox" /\ call.sandbox = h

(* C20 as stated: a handle goes from having no default session to having one only in
   a file, exec or bucket call. *)
C20_FileExecBucketOnly ==
    \A h \in 1..Len(before.defaults) :
        (before.defaults[h] = 0 /\ sandboxObjs[h]._default_session # 0)
            => call.op \in SessionOps \ {"set_env_vars"}

(* C20, amended: the default session of a sandbox handle is constructed at most once.
   A new handle has none; the first file, exec, bucket or env call on the handle
   constructs it, as a new object; every later such call on the handle uses that
   object and constructs nothing; and no other call, create_or_get_session,
   delete_session and destroy_all_sessions among them, sets or replaces the default
   session of a handle. *)
C20_DefaultSessionOnce ==
    /\ \A h \in 1..Len(sandboxObjs) :
           h > Len(before.defaults) => sandboxObjs[h]._default_session = 0
    /\ \A h \in 1..Len(before.defaults) :
           IF UsesDefaultOf(h)
           THEN /\ sandboxObjs[h]._default_session = call.session
                /\ sessionObjs[call.session] = [session_id |-> "default", sandbox |-> h]
                /\ IF before.defaults[h] = 0
                   THEN call.session = before.sessions + 1 /\ Len(sessionObjs) = before.sessions + 1
                   ELSE call.session = before.defaults[h] /\ Len(sessionObjs) = before.sessions
           ELSE sandboxObjs[h]._default_session = before.defaults[h]
    /\ \A h1, h2 \in 1..Len(sandboxObjs) :
           (h1 # h2 /\ sandboxObjs[h1]._default_session # 0)
               => sandboxObjs[h1]._default_session # sandboxObjs[h2]._default_session

C20_Witness ==
    /\ call.op = "create_or_get_session"
    /\ raised = NoError
    /\ before.defaults = <<1>>
    /\ sandboxObjs[1]._default_session = 1
    /\ Len(sessionObjs) = 2

(* C21: a create_or_get_session that returns gives a session handle bound to the
   session id it was called with and to the sandbox handle it was called on. *)
C21_BoundToSpecified ==
    (call.op = "create_or_get_session" /\ raised = NoError) =>
        /\ sessionObjs[ret.ref].session_id = call.session_id
        /\ sessionObjs[ret.ref].sandbox = call.sandbox

(* The word run_script puts before the path in the command, for each interpreter. *)
Prefix(interpreter) ==
    CASE interpreter \in {"python3", "python"} -> "python3"
      [] interpreter \in {"bash", "sh"} -> "bash"
      [] interpreter \in {"node", "nodejs"} -> "node"
      [] OTHER -> interpreter

(* C22: run_script sends at most two requests: first one write of the script to the
   remote path, then one run whose command is the prefix of the interpreter, a blank
   and that same path. When the write fails nothing is sent after it and its error
   is raised; the run is sent only after a write that succeeded. *)
C22_WriteThenRun ==
    call.op = "run_script" =>
        /\ Len(sent) <= 2
        /\ Len(sent) >= 1 =>
               /\ sent[1].method = "POST" /\ sent[1].path = "/files/write"
               /\ call.sandbox_path # "" => sent[1].json.path = <<call.sandbox_path>>
               /\ sent[1].json.content = IF call.script.is_file
                                         THEN <<"contents of", call.script.basename>>
                                         ELSE "inline"
               /\ ~Success(sent[1].reply) =>
                      /\ Len(sent) = 1
                      /\ raised.type = "SandboxError"
                      /\ raised.status_code = sent[1].reply.status_code
                      /\ ~TransportFailed(sent[1]) => raised.message = "Failed to write file"
               /\ Success(sent[1].reply) => Len(sent) = 2
        /\ Len(sent) = 2 =>
               /\ Success(sent[1].reply)
               /\ sent[2].method = "POST" /\ sent[2].path = "/session/exec"
               /\ sent[2].json.command = <<Prefix(call.interpreter), " ", sent[1].json.path>>

C22_Witness ==
    /\ call.op = "run_script"
    /\ call.script.is_file
    /\ call.interpreter = "node"
    /\ Len(sent) = 2
    /\ sent[2].json.command = <<"node", " ", <<"/workspace/", "job.sh">> >>
    /\ raised = NoError

(* The extension that belongs to each interpreter. *)
Extension(interpreter) ==
    CASE interpreter \in {"python3", "python"} -> ".py"
      [] interpreter \in {"bash", "sh"} -> ".sh"
      [] interpreter \in {"node", "nodejs"} -> ".js"
      [] OTHER -> ".txt"

(* C23: run_script called without sandbox_path writes inline content to a path it
   makes up, /workspace/script-<uuid> with the extension of the interpreter, and runs
   the prefix of the interpreter followed by that path; the content of a readable
   local file whose name has an extension goes to /workspace/<name of the file>. *)
C23_GeneratedPath ==
    (call.op = "run_script" /\ call.sandbox_path = "" /\ sent # <<>>) =>
        /\ ~call.script.is_file =>
               /\ \E u \in Uuids :
                      sent[1].json.path = <<"/workspace/", "script-", u, Extension(call.interpreter)>>
               /\ Len(sent) = 2 =>
                      sent[2].json.command = <<Prefix(call.interpreter), " ", sent[1].json.path>>
        /\ (call.script.is_file /\ call.script.has_dot) =>
               /\ sent[1].json.path = <<"/workspace/", call.script.basename>>
               /\ sent[1].json.path[Len(sent[1].json.path)] = call.script.basename

C23_Witness ==
    /\ call.op = "run_script"
    /\ call.sandbox_path = ""
    /\ ~call.script.is_file
    /\ call.interpreter = "nodejs"
    /\ Len(sent) = 2
    /\ sent[1].json.path[4] = ".js"
    /\ sent[2].json.command[1] = "node"

(* the payload of a body: what is under 'data' when the body has that key, else the body *)
Unwrapped(body) == IF "data" \in DOMAIN body THEN body.data ELSE body

(* C24: exists answered with a success status and a JSON object returns the truth
   value of the field 'exists' of the unwrapped payload, the field under 'data' when
   the body has the key 'data' and the top-level field otherwise, and False when the
   payload has no such field. *)
C24_ExistsField ==
    (/\ call.op = "exists"
     /\ Success(sent[1].reply)
     /\ sent[1].reply.body.json = "dict") =>
        /\ raised = NoError
        /\ ret.kind = "bool"
        /\ LET payload == Unwrapped(sent[1].reply.body.value)
           IN  /\ "exists" \in DOMAIN payload => (ret.value <=> payload.exists \notin {"false", "null"})
               /\ "exists" \notin DOMAIN payload => ret.value = FALSE

C24_Witness ==
    /\ call.op = "exists"
    /\ raised = NoError
    /\ sent[1].reply.body.value = [data |-> [exists |-> "false"], exists |-> "true"]
    /\ ret.value = FALSE

(* C25: for every byte string b of up to MaxBytes bytes, write(path, base64 of b)
   followed by download(path) on the same session handle, with no other write in
   between, returns exactly b. *)
C25_RoundTrip ==
    (call.op = "download" /\ "written" \in DOMAIN call /\ raised = NoError) =>
        \A b \in ByteStrings : call.written = b64encode(b) => ret.value = b

(* how many Sandbox objects for the sandbox id of object h were constructed up to h *)
Ordinal(objs, h) == Cardinality({k \in 1..h : objs[k].sandbox_id = objs[h].sandbox_id})

(* What thread t got from its last call and what the cache holds for its sandbox id
   are what its calls give on a registry of their own, objects compared by the order
   in which they were constructed for the id. *)
AsAlone(t) ==
    LET sandbox_id == call[t].sandbox_id
        alone == call[t].alone
    IN  /\ raised[t] = alone.raised
        /\ ret[t].kind = alone.ret.kind
        /\ ret[t].kind = "Sandbox" =>
               /\ sandboxObjs[ret[t].ref].sandbox_id = sandbox_id
               /\ Ordinal(sandboxObjs, ret[t].ref) = alone.ret.ref
        /\ sandbox_id \in Keys(_sandboxes) <=> sandbox_id \in Keys(alone.cache)
        /\ sandbox_id \in Keys(_sandboxes) =>
               Ordinal(sandboxObjs, Lookup(_sandboxes, sandbox_id)) = Lookup(alone.cache, sandbox_id)

(* C26: when two threads call create_or_get_sandbox and destroy_sandbox for two
   different sandbox ids, then in every interleaving of their steps each call ends as
   it does alone: the same error or the same handle, and the same cache entry for
   its id, whatever the other thread does. *)
C26_DifferentIdsIndependent ==
    call[1].sandbox_id # call[2].sandbox_id =>
        \A t \in Threads : ThreadAt(t, "idle") => AsAlone(t)

C26_Witness ==
    /\ call[1].sandbox_id # call[2].sandbox_id
    /\ \A t \in Threads : ThreadAt(t, "idle") /\ call[t].overlapped /\ call[t].calls = 2
    /\ call[1].op = "create_or_get_sandbox" /\ ret[1].kind = "Sandbox"
    /\ call[2].op = "destroy_sandbox" /\ raised[2] = NoError
    /\ Keys(_sandboxes) = {"a"}
    /\ Len(sandboxObjs) = 2
    /\ sandboxObjs[1].sandbox_id = "b"

(* both threads call for the same sandbox id and a call of t ran while a call of the
   other thread was under way *)
Raced(t) == call[t].overlapped /\ call[1].sandbox_id = call[2].sandbox_id

(* the requests for sandbox_id that were answered with success, in their order *)
Succeeded(sandbox_id) ==
    SelectSeq(sent, LAMBDA q : q.headers = [x_sandbox_id |-> sandbox_id] /\ Success(q.reply))

(* the cache holds sandbox_id exactly if the remote service last created it *)
CacheFollowsRemote(sandbox_id) ==
    sandbox_id \in Keys(_sandboxes) <=>
        /\ Succeeded(sandbox_id) # <<>>
        /\ Succeeded(sandbox_id)[Len(Succeeded(sandbox_id))].method = "POST"

(* C27: create_or_get_sandbox and destroy_sandbox for the same sandbox id race when
   they run at the same time: calls that run one after the other never end in a
   KeyError and leave the cache holding the id exactly if the remote service last
   created it, while calls that overlap reach both outcomes. *)
C27_OnlyRacesBreakCache ==
    /\ \A t \in Threads : raised[t] = KeyError =>
           Raced(t) /\ call[t].op = "create_or_get_sandbox"
    /\ \A sandbox_id \in {"a", "b"} :
           ((\A t \in Threads : ThreadAt(t, "idle")) /\ ~CacheFollowsRemote(sandbox_id)) =>
               \E t \in Threads : Raced(t)

C27_Witness ==
    /\ call[1].sandbox_id = call[2].sandbox_id
    /\ \A t \in Threads : ThreadAt(t, "idle") /\ call[t].calls = 1
    /\ call[1].op = "create_or_get_sandbox" /\ raised[1] = KeyError
    /\ call[2].op = "destroy_sandbox" /\ raised[2] = NoError
    /\ Len(sent) = 2 /\ sent[1].method = "POST" /\ Success(sent[2].reply)

(* the call is made through a sandbox handle or a session handle *)
OnHandle == "sandbox" \in DOMAIN call

(* C28 as stated: every request of a call through a sandbox handle or a session
   handle carries the header x-sandbox-id with the sandbox id of the handle, and a
   call of _request with an empty sandbox id sends no such header. *)
C28_HandleHeader ==
    /\ OnHandle =>
           \A i \in 1..Len(sent) :
               sent[i].headers = [x_sandbox_id |-> sandboxObjs[call.sandbox].sandbox_id]
    /\ (call.op = "_request" /\ call.sandbox_id = "") =>
           \A i \in 1..Len(sent) : sent[i].headers = <<>>

(* C28, amended: a request carries the header x-sandbox-id exactly if the sandbox id
   it is made for is not empty, and the header then holds that id; the id of a
   request through a handle is the sandbox id of the handle, so the requests of a
   handle made for the empty id carry no header. *)
C28_HeaderIffNonEmpty ==
    LET sandbox_id == IF OnHandle THEN sandboxObjs[call.sandbox].sandbox_id ELSE call.sandbox_id
    IN  (OnHandle \/ call.op = "_request") =>
            \A i \in 1..Len(sent) :
                /\ sandbox_id # "" => sent[i].headers = [x_sandbox_id |-> sandbox_id]
                /\ sandbox_id = "" => sent[i].headers = <<>>

C28_Witness ==
    /\ call.op = "write"
    /\ sandboxObjs[call.sandbox].sandbox_id = ""
    /\ raised = NoError
    /\ Len(sent) = 1
    /\ sent[1].headers = <<>>

(* C29: an error an operation raises lacks a status code only when no response was
   received for the failing request, because the transport failed or the call was
   rejected before any request was sent; an error raised after the remote service
   answered carries the status code of that answer. *)
C29_StatusUnlessNoResponse ==
    raised # NoError =>
        /\ raised.status_code = NoStatus =>
               sent = <<>> \/ TransportFailed(sent[Len(sent)])
        /\ (sent # <<>> /\ ~TransportFailed(sent[Len(sent)])) =>
               raised.status_code = sent[Len(sent)].reply.status_code

(* this step is a successful create_or_get_session that follows a successful
   create_or_get_session on the same sandbox handle with the same session id *)
Repeated ==
    /\ call.op = "create_or_get_session" /\ raised = NoError
    /\ call'.op = "create_or_get_session" /\ raised' = NoError
    /\ call'.sandbox = call.sandbox
    /\ call'.session_id = call.session_id

(* create_or_get_session leaves the cache of the registry and the default session of
   every sandbox handle as they were *)
NothingStored ==
    call.op = "create_or_get_session" =>
        /\ _sandboxes = before.sandboxes
        /\ before.defaults = [h \in 1..Len(sandboxObjs) |-> sandboxObjs[h]._default_session]

(* C30: create_or_get_session stores the handle it returns nowhere, it leaves the
   default session of the sandbox handle and the cache of the registry unchanged, and
   two successful calls with the same session id return two different handle objects
   that are bound to the same sandbox and the same session id. *)
C30_NeverStored ==
    /\ []NothingStored
    /\ [][Repeated =>
            /\ ret'.ref # ret.ref
            /\ sessionObjs'[ret'.ref].sandbox = sessionObjs[ret.ref].sandbox
            /\ sessionObjs'[ret'.ref].session_id = sessionObjs[ret.ref].session_id]_vars

(* C31: a session handle is its session id and the sandbox handle it is bound to and
   nothing else, and no step changes either: every ExecutionSession that exists
   before a call is the same after it, whether the call succeeds or fails. *)
C31_BindingImmutable ==
    [][/\ Len(sessionObjs') >= Len(sessionObjs)
       /\ \A s \in 1..Len(sessionObjs) : sessionObjs'[s] = sessionObjs[s]
       /\ \A s \in 1..Len(sessionObjs') : DOMAIN sessionObjs'[s] = {"session_id", "sandbox"}]_vars

C31_Witness ==
    /\ call.op \in SessionOps
    /\ call.on = "ExecutionSession"
    /\ raised # NoError
    /\ sent # <<>>
    /\ sessionObjs[call.session].session_id = "s1"
    /\ sessionObjs[call.session].sandbox = call.sandbox

(* C32: destroy_sandbox sends the one request DELETE /lifecycle for the sandbox id and
   no other, evicts the cache entry of that id when the request succeeds and leaves
   the cache alone when it fails; the Sandbox and ExecutionSession objects handed out
   before stay as they are, bindings and default sessions included. *)
C32_DestroyOnlyEvicts ==
    [][call'.op = "destroy_sandbox" =>
          /\ Len(sent') = 1
          /\ IsLifecycle(sent'[1], "DELETE", call'.sandbox_id)
          /\ sandboxObjs' = sandboxObjs
          /\ sessionObjs' = sessionObjs
          /\ _sandboxes' = IF raised' = NoError
                           THEN SelectSeq(_sandboxes, LAMBDA e : e.key # call'.sandbox_id)
                           ELSE _sandboxes]_vars

C32_Witness ==
    /\ call.op = "destroy_sandbox"
    /\ raised = NoError
    /\ before.sandboxes # <<>>
    /\ _sandboxes = <<>>
    /\ \E h \in 1..Len(sandboxObjs) :
           /\ sandboxObjs[h].sandbox_id = call.sandbox_id
           /\ sandboxObjs[h]._default_session # 0
           /\ sessionObjs[sandboxObjs[h]._default_session].sandbox = h

(* C33: after any series of create_or_get_sandbox, destroy_sandbox and
   destroy_all_sandboxes calls, whatever the remote service answered, the cache holds
   a sandbox id exactly if a create_or_get_sandbox for the id succeeded and no destroy
   of the id, single or as part of destroy_all_sandboxes, has succeeded since the last
   one that did; issued records that history from the results of the calls. *)
C33_CachedIffCreatedAndNotDestroyed ==
    \A sandbox_id \in SandboxIds : sandbox_id \in Keys(_sandboxes) <=> issued[sandbox_id] # 0

C33_Witness ==
    /\ call.op = "destroy_all_sandboxes"
    /\ raised # NoError
    /\ Len(before.sandboxes) = 3
    /\ Len(sent) = 2
    /\ Len(_sandboxes) = 2
    /\ issued[before.sandboxes[1].key] = 0
    /\ issued[before.sandboxes[2].key] # 0

(* the ids of the cache as it was when the call began, in the order of the cache *)
StartIds == [i \in 1..Len(before.sandboxes) |-> before.sandboxes[i].key]
(* the ids of the failures a batch reports, in the order of the report *)
FailedIds == [i \in 1..Len(ret.failed) |-> ret.failed[i][1]]

(* C34: when destroy_all_sandboxes(continue_on_error=True) returns, the cache holds
   exactly the ids of the reported failures; no id is both destroyed and failed, every
   id cached at the start is one or the other, and each of the two lists names its
   ids in the order the cache had them. *)
C34_FailuresStayCached ==
    (call.op = "destroy_all_sandboxes" /\ call.continue_on_error /\ raised = NoError) =>
        /\ Keys(_sandboxes) = SeqToSet(FailedIds)
        /\ SeqToSet(ret.destroyed) \cap SeqToSet(FailedIds) = {}
        /\ SeqToSet(ret.destroyed) \cup SeqToSet(FailedIds) = SeqToSet(StartIds)
        /\ ret.destroyed = SelectSeq(StartIds, LAMBDA id : id \in SeqToSet(ret.destroyed))
        /\ FailedIds = SelectSeq(StartIds, LAMBDA id : id \in SeqToSet(FailedIds))

C34_Witness ==
    /\ call.op = "destroy_all_sandboxes"
    /\ call.continue_on_error
    /\ raised = NoError
    /\ Len(StartIds) = 3
    /\ ret.destroyed = <<StartIds[2]>>
    /\ FailedIds = <<StartIds[1], StartIds[3]>>
    /\ Keys(_sandboxes) = {StartIds[1], StartIds[3]}

(* the Sandbox objects that existed when the call began *)
EarlierHandles == 1..Len(before.defaults)

(* C35: a successful create_or_get_sandbox for an id that is not cached, as it is after
   a successful destroy of the id, returns a Sandbox object that did not exist before
   and has no default session; a handle that is no longer the cached one for its id
   keeps its sandbox id, and every call on it still sends its request with that id. *)
C35_NewHandleAfterDestroy ==
    /\ (/\ call.op = "create_or_get_sandbox"
        /\ raised = NoError
        /\ call.sandbox_id \notin Keys(before.sandboxes)) =>
           /\ ret.ref \notin EarlierHandles
           /\ sandboxObjs[ret.ref].sandbox_id = call.sandbox_id
           /\ sandboxObjs[ret.ref]._default_session = 0
           /\ \A h \in EarlierHandles : sandboxObjs[h]._default_session = before.defaults[h]
    /\ (/\ OnHandle
        /\ \A i \in 1..Len(_sandboxes) : _sandboxes[i].value # call.sandbox
        /\ ~(call.op = "delete_session" /\ call.session_id = "default")) =>
           /\ sent # <<>>
           /\ \A i \in 1..Len(sent) :
                  sent[i].headers = IF sandboxObjs[call.sandbox].sandbox_id = "" THEN <<>>
                                    ELSE [x_sandbox_id |-> sandboxObjs[call.sandbox].sandbox_id]

C35_Witness ==
    /\ call.op = "write"
    /\ call.on = "Sandbox"
    /\ call.sandbox = 1
    /\ raised = NoError
    /\ sandboxObjs[1].sandbox_id = "a"
    /\ sent[1].headers = [x_sandbox_id |-> "a"]
    /\ "a" \in Keys(_sandboxes)
    /\ Lookup(_sandboxes, "a") = 2
    /\ sandboxObjs[2]._default_session = 0
    /\ sandboxObjs[1]._default_session # 0

(* C36: a call on a sandbox handle or on a session handle, whichever method it is and
   whether it succeeds or fails, leaves the cache of the registry as it was: the same
   ids, each with the same Sandbox object. *)
C36_HandleCallsKeepCache ==
    OnHandle => _sandboxes = before.sandboxes

C36_Witness ==
    /\ call.op = "run_script"
    /\ call.on = "Sandbox"
    /\ Len(sent) = 2
    /\ raised # NoError
    /\ before.sandboxes # <<>>
    /\ Lookup(_sandboxes, sandboxObjs[call.sandbox].sandbox_id) = call.sandbox

(* both threads have called create_or_get_sandbox once, for the same sandbox id, and
   both calls have returned a handle *)
BothCreated ==
    /\ call[1].sandbox_id = call[2].sandbox_id
    /\ \A t \in Threads :
           /\ ThreadAt(t, "idle")
           /\ call[t].calls = 1
           /\ call[t].op = "create_or_get_sandbox"
           /\ raised[t] = NoError
           /\ ret[t].kind = "Sandbox"

(* C37 as stated: two create_or_get_sandbox calls for one sandbox id that run at the
   same time and both succeed return the same Sandbox object, and that object is the
   one the cache holds. *)
C37_SameHandleConcurrent ==
    BothCreated =>
        /\ ret[1].ref = ret[2].ref
        /\ Lookup(_sandboxes, call[1].sandbox_id) = ret[1].ref

(* C37, amended: both calls return a Sandbox for the id and the cache is left with one
   entry for the id, holding a handle that one of the calls returned; the two calls
   return the same object, the cached one, when they do not overlap. *)
C37_SameHandleUnlessOverlapped ==
    BothCreated =>
        /\ \A t \in Threads : sandboxObjs[ret[t].ref].sandbox_id = call[t].sandbox_id
        /\ Len(_sandboxes) = 1
        /\ _sandboxes[1].key = call[1].sandbox_id
        /\ _sandboxes[1].value \in {ret[1].ref, ret[2].ref}
        /\ (\A t \in Threads : ~Raced(t)) =>
               /\ ret[1].ref = ret[2].ref
               /\ _sandboxes[1].value = ret[1].ref
               /\ Len(sandboxObjs) = 1

C37_Witness ==
    /\ BothCreated
    /\ \A t \in Threads : Raced(t)
    /\ ret[1].ref # ret[2].ref
    /\ Len(sandboxObjs) = 2
    /\ _sandboxes[1].value = ret[2].ref
====
